---- MODULE Spec2Model ----
(***************************************************************************)
(* Model of benji's storage engine core, src/benji/storage/base.py:        *)
(* StorageBase (save/read/rm/list/versions, the read and write pools, the  *)
(* completion streams, close) and ReadCacheStorageBase (the read cache).   *)
(*                                                                         *)
(* Every backend call (_write_object, _read_object, _rm_object, ...) is    *)
(* one step of the thread that issues it, so that calls of different       *)
(* threads interleave; a backend call may fail while the fault budget      *)
(* lasts.                                                                  *)
(***************************************************************************)
EXTENDS Integers, Sequences, FiniteSets, TLC

\* ------------------------------------------------------------------ bounds
\* longest payload handed to save
MaxLen == 2
\* backend calls that may fail in one behaviour
MaxFaults == 2
\* asynchronous jobs (saves and reads together) submitted in one behaviour
MaxJobs == 3
\* module_configuration['simultaneousWrites'] (line 53) and
\* module_configuration['simultaneousReads'] (line 54)
simultaneousWrites == 1
simultaneousReads == 1

\* ------------------------------------------------------- program constants
READ_QUEUE_LENGTH == 1
WRITE_QUEUE_LENGTH == 1

_TRANSFORMS_KEY == "transforms"
_SIZE_KEY == "size"
_OBJECT_SIZE_KEY == "object_size"
_CHECKSUM_KEY == "checksum"
_HMAC_KEY == "hmac"
_BLOCKS_PREFIX == "blocks/"
_VERSIONS_PREFIX == "versions/"
_META_SUFFIX == ".meta"

\* ------------------------------------------------------------ Python values
\* None, for the values that are strings otherwise (checksum, exception names)
None == "None"
\* no exception pending
NoExc == "NoExc"
\* Optional[bytes]: <<>> is None, <<d>> is the bytes d
NoneBytes == <<>>
Some(d) == <<d>>
IsNone(o) == o = <<>>
\* Python truthiness of an Optional[bytes]: None and b'' are false
TruthyBytes(o) == o # <<>> /\ o[1] # <<>>
\* Python truthiness of an Optional[str]
TruthyStr(s) == s # None /\ s # ""

Reverse(s) == [i \in 1..Len(s) |-> s[Len(s) + 1 - i]]

\* ----------------------------------------------------------------- domains
\* payloads b'', b'\x01', b'\x01\x02', ...
Payloads == {[i \in 1..n |-> i] : n \in 0..MaxLen}
BlockUids == {"u1"}
VersionUids == {"V1"}
Checksums == {None, "abcd"}
\* DereferencedBlock: uid, size, checksum (id is used in messages only)
Blocks == [uid : BlockUids, size : 0..MaxLen, checksum : Checksums]
\* the texts handed to save_version
Texts == {"", "a", "b"}
\* str.encode('utf-8') and bytes.decode('utf-8') on Texts
utf8_encode(s) == IF s = "" THEN <<>> ELSE IF s = "a" THEN <<97>> ELSE <<98>>
utf8_decode(b) == IF b = <<>> THEN "" ELSE IF b = <<97>> THEN "a"
                  ELSE IF b = <<98>> THEN "b" ELSE "?"

\* ------------------------------------------------------------- A key codec
\* _to_key: prefix, two slices of md5(object_key), object_key. The md5 slices are
\* a function of object_key and are left out of the modelled key.
_to_key(prefix, object_key) == <<prefix, object_key>>
_block_uid_to_key(uid) == _to_key(_BLOCKS_PREFIX, uid)
_version_uid_to_key(uid) == _to_key(_VERSIONS_PREFIX, uid)
\* key + self._META_SUFFIX
MetaKey(key) == Append(key, _META_SUFFIX)
\* key.endswith(self._META_SUFFIX)
EndsWithMeta(key) == key[Len(key)] = _META_SUFFIX
\* _key_to_block_uid
_key_to_block_uid(key) == key[2]

BlockKeys == {_block_uid_to_key(u) : u \in BlockUids}
VersionKeys == {_version_uid_to_key(u) : u \in VersionUids}
AllKeys == BlockKeys \cup VersionKeys
          \cup {MetaKey(k) : k \in BlockKeys \cup VersionKeys}

\* ----------------------------------------------------- B transform pipeline
\* Two transforms stand for the registered ones: "pfx" prepends a tag byte (as a
\* cipher prepends its envelope), "rev" reverses the payload and declines
\* payloads shorter than two bytes (as a compressor declines what does not shrink).
TransformNames == {"pfx", "rev"}
TransformModule(name) == IF name = "pfx" THEN "benji.transform.pfx"
                         ELSE "benji.transform.rev"
\* transform.encapsulate(data=data) -> (bytes | None, materials)
transform_encapsulate(name, data) ==
    IF name = "pfx"
    THEN [data |-> Some(<<9>> \o data), materials |-> 9]
    ELSE IF Len(data) >= 2
         THEN [data |-> Some(Reverse(data)), materials |-> 0]
         ELSE [data |-> NoneBytes, materials |-> 0]
\* transform.decapsulate(data=data, materials=materials) -> bytes
transform_decapsulate(name, data, materials) ==
    IF name = "pfx" THEN (IF data = <<>> THEN <<>> ELSE Tail(data))
    ELSE Reverse(data)
\* the chains activeTransforms may configure
Chains == {<<>>, <<"pfx">>, <<"rev">>, <<"pfx", "rev">>, <<"rev", "pfx">>}

RECURSIVE EncapsulateFrom(_, _, _, _)
EncapsulateFrom(chain, i, data, transforms_metadata) ==
    IF i > Len(chain)
    THEN [data |-> data, transforms_metadata |-> transforms_metadata]
    ELSE LET r == transform_encapsulate(chain[i], data) IN
         IF TruthyBytes(r.data)
         THEN EncapsulateFrom(chain, i + 1, r.data[1],
                  Append(transforms_metadata,
                         [name |-> chain[i], module |-> TransformModule(chain[i]),
                          materials |-> r.materials]))
         ELSE EncapsulateFrom(chain, i + 1, data, transforms_metadata)
\* _encapsulate: the transforms in configured order; a declining one is skipped
_encapsulate(chain, data) == EncapsulateFrom(chain, 1, data, <<>>)

RECURSIVE DecapsulateFrom(_, _, _)
DecapsulateFrom(transforms_metadata, i, data) ==
    IF i < 1 THEN [exc |-> NoExc, data |-> data]
    ELSE LET element == transforms_metadata[i] IN
         IF element.name \notin TransformNames
         THEN [exc |-> "IOError", data |-> data]
         ELSE IF element.module # TransformModule(element.name)
         THEN [exc |-> "ConfigurationError", data |-> data]
         ELSE DecapsulateFrom(transforms_metadata, i - 1,
                  transform_decapsulate(element.name, data, element.materials))
\* _decapsulate: the recorded transforms, in reversed order
_decapsulate(data, transforms_metadata) ==
    DecapsulateFrom(transforms_metadata, Len(transforms_metadata), data)

\* ---------------------------------------------------- C metadata envelope
\* A metadata dict is a function from the keys it holds to their values.
DictSet(m, k, v) == [x \in (DOMAIN m) \cup {k} |-> IF x = k THEN v ELSE m[x]]
DictDel(m, k) == [x \in (DOMAIN m) \ {k} |-> m[x]]
\* insertion order of the keys _build_metadata sets
MetaKeyOrder == <<_SIZE_KEY, _OBJECT_SIZE_KEY, _CHECKSUM_KEY, _TRANSFORMS_KEY, _HMAC_KEY>>
\* json.dumps(metadata, separators=(',', ':')): the items in insertion order
json_dumps(m) ==
    LET keep == SelectSeq(MetaKeyOrder, LAMBDA k : k \in DOMAIN m)
    IN [i \in 1..Len(keep) |-> <<keep[i], m[keep[i]]>>]
\* json.loads
JsonValue(j, k) == j[CHOOSE i \in 1..Len(j) : j[i][1] = k][2]
json_loads(j) == [k \in {j[i][1] : i \in 1..Len(j)} |-> JsonValue(j, k)]
\* DictHMAC.add_hexdigest / verify_hexdigest: the digest of the dict without its
\* hmac entry, under the secret key; modelled as that content itself.
HexDigest(m) == [secret |-> "k", content |-> json_dumps(DictDel(m, _HMAC_KEY))]
add_hexdigest(m) == DictSet(m, _HMAC_KEY, HexDigest(m))
verify_hexdigest(m) == _HMAC_KEY \in DOMAIN m /\ m[_HMAC_KEY] = HexDigest(m)

\* _build_metadata
_build_metadata(size, object_size, transforms_metadata, checksum, dict_hmac) ==
    LET m0 == [k \in {_SIZE_KEY, _OBJECT_SIZE_KEY} |->
                  IF k = _SIZE_KEY THEN size ELSE object_size]
        m1 == IF TruthyStr(checksum) THEN DictSet(m0, _CHECKSUM_KEY, checksum) ELSE m0
        m2 == IF transforms_metadata # <<>>
              THEN DictSet(m1, _TRANSFORMS_KEY, transforms_metadata) ELSE m1
        m3 == IF dict_hmac THEN add_hexdigest(m2) ELSE m2
    IN json_dumps(m3)

\* _decode_metadata with the HMAC verified after the required keys and the length
_decode_metadata_HmacLast(metadata_json, data_length, dict_hmac) ==
    LET metadata == json_loads(metadata_json) IN
    IF ~({_OBJECT_SIZE_KEY, _SIZE_KEY} \subseteq DOMAIN metadata)
    THEN [exc |-> "KeyError", metadata |-> metadata]
    ELSE IF data_length # metadata[_OBJECT_SIZE_KEY]
    THEN [exc |-> "ValueError", metadata |-> metadata]
    ELSE IF dict_hmac /\ ~verify_hexdigest(metadata)
    THEN [exc |-> "IntegrityError", metadata |-> metadata]
    ELSE [exc |-> NoExc, metadata |-> metadata]

\* _decode_metadata: the exception it raises (NoExc: none) and the dict
_decode_metadata(metadata_json, data_length, dict_hmac) ==
    LET metadata == json_loads(metadata_json) IN
    IF dict_hmac /\ ~verify_hexdigest(metadata)
    THEN [exc |-> "IntegrityError", metadata |-> metadata]
    ELSE IF ~({_OBJECT_SIZE_KEY, _SIZE_KEY} \subseteq DOMAIN metadata)
    THEN [exc |-> "KeyError", metadata |-> metadata]
    ELSE IF data_length # metadata[_OBJECT_SIZE_KEY]
    THEN [exc |-> "ValueError", metadata |-> metadata]
    ELSE [exc |-> NoExc, metadata |-> metadata]

\* ------------------------------------------------------------------ state
\* the threads: clients calling the facade synchronously, the main thread that
\* submits asynchronous jobs and consumes their outcomes, and the pool workers
Clients == {<<"client", i>> : i \in 1..2}
Main == <<"main", 0>>
WriteWorkers == {<<"writer", i>> : i \in 1..simultaneousWrites}
ReadWorkers == {<<"reader", i>> : i \in 1..simultaneousReads}
Workers == WriteWorkers \cup ReadWorkers
Threads == Clients \cup {Main} \cup Workers
Jobs == 1..MaxJobs

VARIABLES
    objects,                   \* H: the backend's objects, key -> Optional content
    has_read_cache,            \* self._read_cache is not None
    _read_cache,               \* G: the disk cache, key -> Optional value
    _use_read_cache,           \* self._use_read_cache
    _active_transforms,        \* self._active_transforms (names)
    _consistency_check_writes, \* self._consistency_check_writes
    _dict_hmac,                \* self._dict_hmac is not None
    input,                     \* the block and payload a one-client run saves
    pc,                        \* where each thread stands
    ctx,                       \* each thread's call: arguments, locals, outcome
    faults,                    \* backend calls that may still fail
    raced,                     \* uids a save of which overlapped an rm or rm_many
    _write_semaphore,          \* permits left in self._write_semaphore
    _read_semaphore,           \* permits left in self._read_semaphore
    _write_futures,            \* self._write_futures: job ids
    _read_futures,             \* self._read_futures: job ids
    futures,                   \* the Future of each job id
    write_queue,               \* work queue of self._write_executor
    read_queue,                \* work queue of self._read_executor
    running,                   \* the job each pool worker runs (0: none)
    shut,                      \* the executors close() has shut down
    completed,                 \* job ids in the order their futures completed
    yielded                    \* the items the completion streams have yielded

config_vars == <<has_read_cache, _active_transforms, _consistency_check_writes,
                 _dict_hmac, input>>
store_vars == <<objects, _read_cache, _use_read_cache, faults, raced>>
pool_vars == <<_write_semaphore, _read_semaphore, _write_futures, _read_futures,
               futures, write_queue, read_queue, running, shut, completed, yielded>>
vars == <<config_vars, store_vars, pc, ctx, pool_vars>>

NoBlock == [uid |-> "u1", size |-> 0, checksum |-> None]
NoPrev == [op |-> "none", exc |-> NoExc, uid |-> "u1", data |-> <<>>, text |-> "",
           overwrite |-> FALSE]
IdleCtx ==
    [op |-> "none", block |-> NoBlock, data |-> <<>>, text |-> "",
     metadata_only |-> FALSE, overwrite |-> FALSE,
     key |-> <<>>, metadata_key |-> <<>>,
     stored |-> <<>>, metadata_json |-> <<>>, metadata_actual_json |-> <<>>,
     data_read |-> NoneBytes, data_length |-> 0,
     exc |-> NoExc, value |-> NoneBytes, metadata |-> <<>>, ret |-> {}, uids |-> {},
     from_cache |-> FALSE, length_arg |-> <<>>, consumed |-> 0, fs |-> {},
     log |-> <<>>, prev |-> NoPrev]

\* a new call of thread t; what the call before it was and how it ended is kept
NewCtx(t, op) ==
    [IdleCtx EXCEPT !.op = op,
                    !.prev = [op |-> ctx[t].op, exc |-> ctx[t].exc,
                              uid |-> ctx[t].block.uid, data |-> ctx[t].data,
                              text |-> ctx[t].text,
                              overwrite |-> ctx[t].overwrite]]
LogCall(c, call, key, e) ==
    [c EXCEPT !.log = Append(@, [call |-> call, key |-> key, exc |-> e])]

\* ------------------------------------------------- H backend interface
\* The concrete backend is external; its contract: write_object creates or
\* overwrites, read_object / read_object_length / rm_object fail not found on an
\* absent key, and any call may fail with an error of the backend.
_write_object(objs, key, data) == [objs EXCEPT ![key] = Some(data)]
_rm_object(objs, key) == [objs EXCEPT ![key] = NoneBytes]
FaultExcs == {"WriteError", "ReadError", "RmError"}
Fault(e) == IF faults > 0 THEN {e} ELSE {}
WriteOutcomes == {NoExc} \cup Fault("WriteError")
ReadOutcomes(key) ==
    (IF objects[key] = NoneBytes THEN {"FileNotFoundError"} ELSE {NoExc})
    \cup Fault("ReadError")
RmOutcomes(key) ==
    (IF objects[key] = NoneBytes THEN {"FileNotFoundError"} ELSE {NoExc})
    \cup Fault("RmError")
Spend(e) == faults' = IF e \in FaultExcs THEN faults - 1 ELSE faults
\* _list_objects(prefix)
_list_objects(objs, prefix) == {k \in DOMAIN objs : objs[k] # NoneBytes /\ k[1] = prefix}

\* what a step of a facade call leaves alone
CallFrame == UNCHANGED <<config_vars, pool_vars, _use_read_cache>>
FacadeFrame == CallFrame /\ UNCHANGED raced
\* the calls in progress: a thread is inside a call from its first step until it
\* has returned
InCall(t, ops, uid) ==
    /\ pc[t] # "idle"
    /\ ctx[t].op \in ops
    /\ IF ctx[t].op = "rm_many" THEN uid \in ctx[t].uids ELSE ctx[t].block.uid = uid
Writing == {"save"}
Removing == {"rm", "rm_many"}
\* thread t enters a call of kind mine on uids: a uid on which a call of the
\* other kind is in progress has seen a save and a removal overlap
Overlap(t, uids, other) ==
    raced' = raced \cup {u \in uids : \E t2 \in Threads \ {t} : InCall(t2, other, u)}
Goto(t, label) == pc' = [pc EXCEPT ![t] = label]

\* a synchronous call returns to (or raises in) the client and its locals are gone
Leave(t) ==
    /\ pc[t] = "ret"
    /\ Goto(t, "idle")
    /\ ctx' = [ctx EXCEPT ![t] = IdleCtx]
    /\ UNCHANGED <<objects, faults, _read_cache>>
    /\ FacadeFrame

\* -------------------------------------------------- F save: _write (151-179)
\* lines 152-160: encapsulate, build the metadata, derive the keys, throttle
BeginWrite(t, op, block, data) ==
    LET e == _encapsulate(_active_transforms, data)
        key == _block_uid_to_key(block.uid)
    IN [NewCtx(t, op) EXCEPT
           !.block = block, !.data = data,
           !.key = key, !.metadata_key = MetaKey(key),
           !.stored = e.data,
           !.metadata_json = _build_metadata(block.size, Len(e.data),
                                 e.transforms_metadata, block.checksum, _dict_hmac)]

\* save(block, data, sync=True): self._write(block, data) in the calling thread
CallSave(t, blocks, payloads) ==
    /\ pc[t] = "idle"
    /\ \E block \in blocks, data \in payloads :
          /\ ctx' = [ctx EXCEPT ![t] = BeginWrite(t, "save", block, data)]
          /\ Overlap(t, {block.uid}, Removing)
    /\ Goto(t, "write_data")
    /\ UNCHANGED <<objects, faults, _read_cache>>
    /\ CallFrame

\* after the try block of _write / save_version: the consistency check, or return
AfterWrite == IF _consistency_check_writes THEN "check_read_data" ELSE "ret"

\* WriteData without the try block: a failed payload write is followed by the
\* metadata write all the same
WriteData_NoTry(t) ==
    /\ pc[t] = "write_data"
    /\ \E o \in WriteOutcomes :
          /\ Spend(o)
          /\ objects' = IF o = NoExc
                        THEN _write_object(objects, ctx[t].key, ctx[t].stored)
                        ELSE objects
          /\ ctx' = [ctx EXCEPT ![t] = [LogCall(@, "write", ctx[t].key, o)
                                           EXCEPT !.exc = o]]
          /\ Goto(t, "write_meta")
    /\ UNCHANGED _read_cache
    /\ FacadeFrame

\* line 163: self._write_object(key, data)
WriteData(t) ==
    /\ pc[t] = "write_data"
    /\ \E o \in WriteOutcomes :
          /\ Spend(o)
          /\ IF o = NoExc
             THEN /\ objects' = _write_object(objects, ctx[t].key, ctx[t].stored)
                  /\ ctx' = [ctx EXCEPT ![t] = LogCall(@, "write", ctx[t].key, o)]
                  /\ Goto(t, "write_meta")
             ELSE /\ objects' = objects
                  /\ ctx' = [ctx EXCEPT ![t] = [LogCall(@, "write", ctx[t].key, o)
                                                   EXCEPT !.exc = o]]
                  /\ Goto(t, "cleanup_data")
    /\ UNCHANGED _read_cache
    /\ FacadeFrame

\* WriteMeta that reports success without having stored the metadata
WriteMeta_Skip(t) ==
    /\ pc[t] = "write_meta"
    /\ ctx' = [ctx EXCEPT ![t] = LogCall(@, "write", ctx[t].metadata_key, NoExc)]
    /\ Goto(t, AfterWrite)
    /\ UNCHANGED <<objects, faults, _read_cache>>
    /\ FacadeFrame

\* line 164: self._write_object(metadata_key, metadata_json)
WriteMeta(t) ==
    /\ pc[t] = "write_meta"
    /\ \E o \in WriteOutcomes :
          /\ Spend(o)
          /\ IF o = NoExc
             THEN /\ objects' = _write_object(objects, ctx[t].metadata_key,
                                              ctx[t].metadata_json)
                  /\ ctx' = [ctx EXCEPT ![t] = LogCall(@, "write", ctx[t].metadata_key, o)]
                  /\ Goto(t, AfterWrite)
             ELSE /\ objects' = objects
                  /\ ctx' = [ctx EXCEPT ![t] = [LogCall(@, "write", ctx[t].metadata_key, o)
                                                   EXCEPT !.exc = o]]
                  /\ Goto(t, "cleanup_data")
    /\ UNCHANGED _read_cache
    /\ FacadeFrame

\* lines 165-171, first removal: self._rm_object(key). FileNotFoundError leaves the
\* inner try (the second removal is not reached) and the write's exception is
\* raised; any other exception of the removal propagates in its place.
CleanupData(t) ==
    /\ pc[t] = "cleanup_data"
    /\ \E o \in RmOutcomes(ctx[t].key) :
          /\ Spend(o)
          /\ objects' = IF o = NoExc THEN _rm_object(objects, ctx[t].key) ELSE objects
          /\ ctx' = [ctx EXCEPT ![t] =
                        [LogCall(@, "rm", ctx[t].key, o)
                            EXCEPT !.exc = IF o \in FaultExcs THEN o ELSE @]]
          /\ Goto(t, IF o = NoExc THEN "cleanup_meta" ELSE "ret")
    /\ UNCHANGED _read_cache
    /\ FacadeFrame

\* lines 165-171, second removal: self._rm_object(metadata_key)
CleanupMeta(t) ==
    /\ pc[t] = "cleanup_meta"
    /\ \E o \in RmOutcomes(ctx[t].metadata_key) :
          /\ Spend(o)
          /\ objects' = IF o = NoExc THEN _rm_object(objects, ctx[t].metadata_key)
                        ELSE objects
          /\ ctx' = [ctx EXCEPT ![t] =
                        [LogCall(@, "rm", ctx[t].metadata_key, o)
                            EXCEPT !.exc = IF o \in FaultExcs THEN o ELSE @]]
          /\ Goto(t, "ret")
    /\ UNCHANGED _read_cache
    /\ FacadeFrame

\* _check_write, line 141: data_actual = self._read_object(key)
CheckReadData(t) ==
    /\ pc[t] = "check_read_data"
    /\ \E o \in ReadOutcomes(ctx[t].key) :
          /\ Spend(o)
          /\ IF o = NoExc
             THEN /\ ctx' = [ctx EXCEPT ![t] =
                                [LogCall(@, "read", ctx[t].key, o)
                                    EXCEPT !.data_read = objects[ctx[t].key]]]
                  /\ Goto(t, "check_read_meta")
             ELSE /\ ctx' = [ctx EXCEPT ![t] =
                                [LogCall(@, "read", ctx[t].key, o) EXCEPT !.exc = o]]
                  /\ Goto(t, "ret")
    /\ UNCHANGED <<objects, _read_cache>>
    /\ FacadeFrame

\* _check_write with the data compared before the metadata is decoded
CheckReadMeta_CompareFirst(t) ==
    /\ pc[t] = "check_read_meta"
    /\ \E o \in ReadOutcomes(ctx[t].metadata_key) :
          /\ Spend(o)
          /\ LET metadata_actual_json == objects[ctx[t].metadata_key][1]
                 c == IF o # NoExc
                      THEN LogCall(ctx[t], "read", ctx[t].metadata_key, o)
                      ELSE [LogCall(ctx[t], "read", ctx[t].metadata_key, o)
                               EXCEPT !.metadata_actual_json = metadata_actual_json]
                 data_actual == ctx[t].data_read[1]
                 d == _decode_metadata(metadata_actual_json, Len(data_actual),
                                       _dict_hmac)
             IN ctx' = [ctx EXCEPT ![t] =
                    IF o # NoExc THEN [c EXCEPT !.exc = o]
                    ELSE IF ctx[t].stored # data_actual
                    THEN [c EXCEPT !.exc = "InternalError"]
                    ELSE IF d.exc # NoExc THEN [c EXCEPT !.exc = d.exc]
                    ELSE c]
          /\ Goto(t, "ret")
    /\ UNCHANGED <<objects, _read_cache>>
    /\ FacadeFrame

\* _check_write, lines 142-149: read the metadata, decode it, compare the data
CheckReadMeta(t) ==
    /\ pc[t] = "check_read_meta"
    /\ \E o \in ReadOutcomes(ctx[t].metadata_key) :
          /\ Spend(o)
          /\ LET metadata_actual_json == objects[ctx[t].metadata_key][1]
                 c == IF o # NoExc
                      THEN LogCall(ctx[t], "read", ctx[t].metadata_key, o)
                      ELSE [LogCall(ctx[t], "read", ctx[t].metadata_key, o)
                               EXCEPT !.metadata_actual_json = metadata_actual_json]
                 data_actual == ctx[t].data_read[1]
                 d == _decode_metadata(metadata_actual_json, Len(data_actual),
                                       _dict_hmac)
             IN ctx' = [ctx EXCEPT ![t] =
                    IF o # NoExc THEN [c EXCEPT !.exc = o]
                    ELSE IF d.exc # NoExc THEN [c EXCEPT !.exc = d.exc]
                    ELSE IF ctx[t].stored # data_actual
                    THEN [c EXCEPT !.exc = "InternalError"]
                    ELSE c]
          /\ Goto(t, "ret")
    /\ UNCHANGED <<objects, _read_cache>>
    /\ FacadeFrame

\* a synchronous call returns to (or raises in) the client; the call's record
\* stays readable until the client's next call
Return(t) ==
    /\ pc[t] = "ret"
    /\ Goto(t, "idle")
    /\ UNCHANGED <<objects, faults, _read_cache, ctx>>
    /\ FacadeFrame

\* -------------------------------------- F/G read: _read (202-228, 522-542)
\* lines 523-532: the cache is consulted first when it is configured and in use
CacheHit(key, metadata_only) ==
    /\ has_read_cache /\ _use_read_cache
    /\ _read_cache[MetaKey(key)] # <<>>
    /\ metadata_only \/ TruthyBytes(_read_cache[key])

BeginRead(t, op, block, metadata_only) ==
    LET key == _block_uid_to_key(block.uid)
        c == [NewCtx(t, op) EXCEPT !.block = block, !.metadata_only = metadata_only,
                                   !.key = key, !.metadata_key = MetaKey(key)]
    IN IF CacheHit(key, metadata_only)
       THEN [c EXCEPT !.from_cache = TRUE,
                      !.metadata = _read_cache[MetaKey(key)],
                      !.value = IF metadata_only THEN NoneBytes ELSE _read_cache[key]]
       ELSE c

\* read(block, sync=True, metadata_only): self._read(...) in the calling thread
CallRead(t, blocks) ==
    /\ pc[t] = "idle"
    /\ \E block \in blocks, metadata_only \in BOOLEAN :
          /\ ctx' = [ctx EXCEPT ![t] = BeginRead(t, "read", block, metadata_only)]
          /\ Goto(t, IF CacheHit(_block_uid_to_key(block.uid), metadata_only)
                     THEN "ret" ELSE "read_data")
    /\ UNCHANGED <<objects, faults, _read_cache>>
    /\ FacadeFrame

\* lines 207-211: the payload, or only its length when metadata_only
ReadData(t) ==
    /\ pc[t] = "read_data"
    /\ \E o \in ReadOutcomes(ctx[t].key) :
          /\ Spend(o)
          /\ LET c == LogCall(ctx[t], IF ctx[t].metadata_only THEN "length" ELSE "read",
                              ctx[t].key, o)
             IN IF o = NoExc
                THEN /\ ctx' = [ctx EXCEPT ![t] =
                                  [c EXCEPT !.data_read = IF ctx[t].metadata_only
                                                          THEN NoneBytes
                                                          ELSE objects[ctx[t].key],
                                            !.data_length = Len(objects[ctx[t].key][1])]]
                     /\ Goto(t, "read_meta")
                ELSE /\ ctx' = [ctx EXCEPT ![t] = [c EXCEPT !.exc = o]]
                     /\ Goto(t, "ret")
    /\ UNCHANGED <<objects, _read_cache>>
    /\ FacadeFrame

\* line 213: the argument of self.read_throttling.consume(...), which Python
\* parses as len(data) if data else (0 + len(metadata_json))
consumed_bytes(data, metadata_json) ==
    IF TruthyBytes(data) THEN Len(data[1]) ELSE 0 + Len(metadata_json)

\* lines 213-228 on the metadata read at line 212: throttle, decode and validate,
\* require the checksum, undo the transforms; the exception raised and the data
\* returned
FinishRead(c0, metadata_json) ==
    LET c == [c0 EXCEPT !.metadata_json = metadata_json,
                        !.consumed = consumed_bytes(c0.data_read, metadata_json)]
        d == _decode_metadata(metadata_json, c.data_length, _dict_hmac) IN
    IF d.exc # NoExc THEN [c EXCEPT !.exc = d.exc]
    ELSE IF _CHECKSUM_KEY \notin DOMAIN d.metadata THEN [c EXCEPT !.exc = "KeyError"]
    ELSE IF ~c.metadata_only /\ _TRANSFORMS_KEY \in DOMAIN d.metadata
    THEN LET u == _decapsulate(c.data_read[1], d.metadata[_TRANSFORMS_KEY]) IN
         IF u.exc # NoExc THEN [c EXCEPT !.exc = u.exc]
         ELSE [c EXCEPT !.value = Some(u.data), !.metadata = Some(d.metadata)]
    ELSE [c EXCEPT !.value = c.data_read, !.metadata = Some(d.metadata)]

\* lines 536-540: the cache is populated whenever it is configured
CachePut(cache, c) ==
    IF ~has_read_cache \/ c.exc # NoExc THEN cache
    ELSE [k \in DOMAIN cache |->
            IF k = c.metadata_key THEN c.metadata
            ELSE IF k = c.key /\ ~c.metadata_only THEN c.value
            ELSE cache[k]]

\* line 212 and what follows it: the metadata is read and the read completes
ReadMeta(t) ==
    /\ pc[t] = "read_meta"
    /\ \E o \in ReadOutcomes(ctx[t].metadata_key) :
          /\ Spend(o)
          /\ LET c == LogCall(ctx[t], "read", ctx[t].metadata_key, o)
                 done == IF o = NoExc
                         THEN FinishRead(c, objects[ctx[t].metadata_key][1])
                         ELSE [c EXCEPT !.exc = o]
             IN /\ ctx' = [ctx EXCEPT ![t] = done]
                /\ _read_cache' = CachePut(_read_cache, done)
          /\ Goto(t, "ret")
    /\ UNCHANGED objects
    /\ FacadeFrame

\* use_read_cache(enable) of ReadCacheStorageBase (544-547)
UseReadCache(t) ==
    /\ pc[t] = "idle"
    /\ \E enable \in BOOLEAN :
          /\ _use_read_cache' = enable
          /\ ctx' = [ctx EXCEPT ![t] = [NewCtx(t, "use_read_cache") EXCEPT
                                           !.ret = {_use_read_cache}]]
    /\ UNCHANGED <<objects, faults, raced, _read_cache, pc, config_vars, pool_vars>>

\* ---------------------------------------- F check_block_metadata (248-264)
\* the truth value of an Optional[int]: None and 0 are false
TruthyInt(o) == o # <<>> /\ o[1] # 0
\* the exception check_block_metadata raises (NoExc: it returns)
check_block_metadata(block, data_length, metadata) ==
    IF metadata[_SIZE_KEY] # block.size THEN "ValueError"
    ELSE IF TruthyInt(data_length) /\ data_length[1] # block.size THEN "ValueError"
    ELSE IF block.checksum # metadata[_CHECKSUM_KEY] THEN "ValueError"
    ELSE NoExc

\* the metadata a caller holds after a read: size and checksum are present
ReadMetadata ==
    {[k \in {_SIZE_KEY, _CHECKSUM_KEY} |-> IF k = _SIZE_KEY THEN size ELSE checksum] :
        size \in 0..MaxLen, checksum \in {"abcd", "ef01"}}
Lengths == {<<>>} \cup {<<n>> : n \in 0..MaxLen}

CheckBlockMetadata(t, blocks) ==
    /\ pc[t] = "idle"
    /\ \E block \in blocks, data_length \in Lengths, metadata \in ReadMetadata :
          ctx' = [ctx EXCEPT ![t] =
                    [IdleCtx EXCEPT !.op = "check_block_metadata",
                        !.block = block, !.length_arg = data_length,
                        !.metadata = Some(metadata),
                        !.exc = check_block_metadata(block, data_length, metadata)]]
    /\ UNCHANGED <<objects, faults, _read_cache, pc>>
    /\ FacadeFrame

\* ------------------------------------------------------- F rm (266-275)
CallRm(t, uids) ==
    /\ pc[t] = "idle"
    /\ \E uid \in uids :
          /\ ctx' = [ctx EXCEPT ![t] =
                    [NewCtx(t, "rm") EXCEPT !.block = [NoBlock EXCEPT !.uid = uid],
                        !.key = _block_uid_to_key(uid),
                        !.metadata_key = MetaKey(_block_uid_to_key(uid))]]
          /\ Overlap(t, {uid}, Writing)
    /\ Goto(t, "rm_data")
    /\ UNCHANGED <<objects, faults, _read_cache>>
    /\ CallFrame

\* RmData without the finally block: a failed payload delete ends the call
RmData_NoFinally(t) ==
    /\ pc[t] = "rm_data"
    /\ \E o \in RmOutcomes(ctx[t].key) :
          /\ Spend(o)
          /\ objects' = IF o = NoExc THEN _rm_object(objects, ctx[t].key) ELSE objects
          /\ ctx' = [ctx EXCEPT ![t] = [LogCall(@, "rm", ctx[t].key, o) EXCEPT !.exc = o]]
          /\ Goto(t, IF o = NoExc THEN "rm_meta" ELSE "ret")
    /\ UNCHANGED _read_cache
    /\ FacadeFrame

\* line 270: self._rm_object(key); whatever it raises, the finally block runs
RmData(t) ==
    /\ pc[t] = "rm_data"
    /\ \E o \in RmOutcomes(ctx[t].key) :
          /\ Spend(o)
          /\ objects' = IF o = NoExc THEN _rm_object(objects, ctx[t].key) ELSE objects
          /\ ctx' = [ctx EXCEPT ![t] = [LogCall(@, "rm", ctx[t].key, o) EXCEPT !.exc = o]]
    /\ Goto(t, "rm_meta")
    /\ UNCHANGED _read_cache
    /\ FacadeFrame

\* lines 271-275: self._rm_object(metadata_key), FileNotFoundError passed over;
\* another exception replaces the pending one
RmMeta(t) ==
    /\ pc[t] = "rm_meta"
    /\ \E o \in RmOutcomes(ctx[t].metadata_key) :
          /\ Spend(o)
          /\ objects' = IF o = NoExc THEN _rm_object(objects, ctx[t].metadata_key)
                        ELSE objects
          /\ ctx' = [ctx EXCEPT ![t] =
                        [LogCall(@, "rm", ctx[t].metadata_key, o)
                            EXCEPT !.exc = IF o \in FaultExcs THEN o ELSE @]]
    /\ Goto(t, "ret")
    /\ UNCHANGED _read_cache
    /\ FacadeFrame

\* --------------------------------------------------- F rm_many (277-283)
CallRmMany(t, uids) ==
    /\ pc[t] = "idle"
    /\ ctx' = [ctx EXCEPT ![t] = [NewCtx(t, "rm_many") EXCEPT !.uids = uids]]
    /\ Overlap(t, uids, Writing)
    /\ Goto(t, "rm_many_data")
    /\ UNCHANGED <<objects, faults, _read_cache>>
    /\ CallFrame

\* _rm_many_objects(keys): the keys it could not delete are returned; whether an
\* absent key counts as one is the backend's choice
RmManyOutcomes(keys) ==
    {errors \in SUBSET keys :
        Cardinality({k \in errors : objects[k] # NoneBytes}) <= faults}
RmManyEffect(keys, errors) ==
    /\ objects' = [k \in DOMAIN objects |->
                     IF k \in keys \ errors THEN NoneBytes ELSE objects[k]]
    /\ faults' = faults - Cardinality({k \in errors : objects[k] # NoneBytes})

\* line 281: errors = self._rm_many_objects(keys)
RmManyData(t) ==
    /\ pc[t] = "rm_many_data"
    /\ LET keys == {_block_uid_to_key(u) : u \in ctx[t].uids} IN
       \E errors \in RmManyOutcomes(keys) :
          /\ RmManyEffect(keys, errors)
          /\ ctx' = [ctx EXCEPT ![t].ret = {_key_to_block_uid(e) : e \in errors}]
    /\ Goto(t, "rm_many_meta")
    /\ UNCHANGED _read_cache
    /\ FacadeFrame

\* line 282: self._rm_many_objects(metadata_keys), its errors dropped
RmManyMeta(t) ==
    /\ pc[t] = "rm_many_meta"
    /\ LET keys == {MetaKey(_block_uid_to_key(u)) : u \in ctx[t].uids} IN
       \E errors \in RmManyOutcomes(keys) : RmManyEffect(keys, errors)
    /\ UNCHANGED ctx
    /\ Goto(t, "ret")
    /\ UNCHANGED _read_cache
    /\ FacadeFrame

\* ------------------------------------------------ F list_blocks (285-296)
\* the uids list_blocks returns on the backend state objs
list_blocks(objs) ==
    {_key_to_block_uid(key) :
        key \in {k \in _list_objects(objs, _BLOCKS_PREFIX) : ~EndsWithMeta(k)}}

ListBlocks(t) ==
    /\ pc[t] = "idle"
    /\ ctx' = [ctx EXCEPT ![t] = [NewCtx(t, "list_blocks") EXCEPT
                                     !.ret = list_blocks(objects)]]
    /\ UNCHANGED <<objects, faults, _read_cache, pc>>
    /\ FacadeFrame

\* ---------------------------------------------- F save_version (328-359)
CallSaveVersion(t, uids, texts) ==
    /\ pc[t] = "idle"
    /\ \E uid \in uids, text \in texts, overwrite \in BOOLEAN :
          LET data_bytes == utf8_encode(text)
              e == _encapsulate(_active_transforms, data_bytes)
              key == _version_uid_to_key(uid)
          IN /\ ctx' = [ctx EXCEPT ![t] =
                   [NewCtx(t, "save_version") EXCEPT
                       !.block = [NoBlock EXCEPT !.uid = uid],
                       !.text = text, !.data = data_bytes, !.overwrite = overwrite,
                       !.key = key, !.metadata_key = MetaKey(key),
                       !.stored = e.data,
                       !.metadata_json = _build_metadata(Len(data_bytes), Len(e.data),
                                             e.transforms_metadata, None, _dict_hmac)]]
             /\ Goto(t, IF overwrite THEN "sv_write_data" ELSE "sv_probe")
    /\ UNCHANGED <<objects, faults, _read_cache>>
    /\ FacadeFrame

\* SvProbe that tests the payload read for truth instead of for having been
\* read: a stored empty payload passes for no payload
SvProbe_Truthy(t) ==
    /\ pc[t] = "sv_probe"
    /\ \E o \in ReadOutcomes(ctx[t].key) :
          LET found == o = NoExc /\ TruthyBytes(objects[ctx[t].key]) IN
          /\ Spend(o)
          /\ ctx' = [ctx EXCEPT ![t] =
                [LogCall(@, "read", ctx[t].key, o)
                    EXCEPT !.exc = IF found THEN "FileExistsError"
                                   ELSE IF o \in FaultExcs THEN o ELSE NoExc]]
          /\ Goto(t, IF found \/ o \in FaultExcs THEN "ret" ELSE "sv_write_data")
    /\ UNCHANGED <<objects, _read_cache>>
    /\ FacadeFrame

\* lines 332-338: unless overwrite, the payload is read; reading it without
\* FileNotFoundError raises FileExistsError
SvProbe(t) ==
    /\ pc[t] = "sv_probe"
    /\ \E o \in ReadOutcomes(ctx[t].key) :
          /\ Spend(o)
          /\ ctx' = [ctx EXCEPT ![t] =
                [LogCall(@, "read", ctx[t].key, o)
                    EXCEPT !.exc = IF o = NoExc THEN "FileExistsError"
                                   ELSE IF o = "FileNotFoundError" THEN NoExc ELSE o]]
          /\ Goto(t, IF o = "FileNotFoundError" THEN "sv_write_data" ELSE "ret")
    /\ UNCHANGED <<objects, _read_cache>>
    /\ FacadeFrame

\* line 348: self._write_object(key, data_bytes)
SvWriteData(t) ==
    /\ pc[t] = "sv_write_data"
    /\ \E o \in WriteOutcomes :
          /\ Spend(o)
          /\ objects' = IF o = NoExc
                        THEN _write_object(objects, ctx[t].key, ctx[t].stored)
                        ELSE objects
          /\ ctx' = [ctx EXCEPT ![t] = [LogCall(@, "write", ctx[t].key, o)
                                           EXCEPT !.exc = o]]
          /\ Goto(t, IF o = NoExc THEN "sv_write_meta" ELSE "sv_cleanup_data")
    /\ UNCHANGED _read_cache
    /\ FacadeFrame

\* line 349: self._write_object(metadata_key, metadata_json)
SvWriteMeta(t) ==
    /\ pc[t] = "sv_write_meta"
    /\ \E o \in WriteOutcomes :
          /\ Spend(o)
          /\ objects' = IF o = NoExc
                        THEN _write_object(objects, ctx[t].metadata_key,
                                           ctx[t].metadata_json)
                        ELSE objects
          /\ ctx' = [ctx EXCEPT ![t] = [LogCall(@, "write", ctx[t].metadata_key, o)
                                           EXCEPT !.exc = o]]
          /\ Goto(t, IF o = NoExc THEN AfterWrite ELSE "sv_cleanup_data")
    /\ UNCHANGED _read_cache
    /\ FacadeFrame

\* lines 350-356, first removal (as in _write)
SvCleanupData(t) ==
    /\ pc[t] = "sv_cleanup_data"
    /\ \E o \in RmOutcomes(ctx[t].key) :
          /\ Spend(o)
          /\ objects' = IF o = NoExc THEN _rm_object(objects, ctx[t].key) ELSE objects
          /\ ctx' = [ctx EXCEPT ![t] =
                        [LogCall(@, "rm", ctx[t].key, o)
                            EXCEPT !.exc = IF o \in FaultExcs THEN o ELSE @]]
          /\ Goto(t, IF o = NoExc THEN "sv_cleanup_meta" ELSE "ret")
    /\ UNCHANGED _read_cache
    /\ FacadeFrame

\* lines 350-356, second removal
SvCleanupMeta(t) ==
    /\ pc[t] = "sv_cleanup_meta"
    /\ \E o \in RmOutcomes(ctx[t].metadata_key) :
          /\ Spend(o)
          /\ objects' = IF o = NoExc THEN _rm_object(objects, ctx[t].metadata_key)
                        ELSE objects
          /\ ctx' = [ctx EXCEPT ![t] =
                        [LogCall(@, "rm", ctx[t].metadata_key, o)
                            EXCEPT !.exc = IF o \in FaultExcs THEN o ELSE @]]
          /\ Goto(t, "ret")
    /\ UNCHANGED _read_cache
    /\ FacadeFrame

\* ---------------------------------------------- F read_version (311-326)
CallReadVersion(t, uids) ==
    /\ pc[t] = "idle"
    /\ \E uid \in uids :
          ctx' = [ctx EXCEPT ![t] =
                    [NewCtx(t, "read_version") EXCEPT
                        !.block = [NoBlock EXCEPT !.uid = uid],
                        !.key = _version_uid_to_key(uid),
                        !.metadata_key = MetaKey(_version_uid_to_key(uid))]]
    /\ Goto(t, "rv_read_data")
    /\ UNCHANGED <<objects, faults, _read_cache>>
    /\ FacadeFrame

\* line 314: data = self._read_object(key)
RvReadData(t) ==
    /\ pc[t] = "rv_read_data"
    /\ \E o \in ReadOutcomes(ctx[t].key) :
          /\ Spend(o)
          /\ ctx' = [ctx EXCEPT ![t] =
                [LogCall(@, "read", ctx[t].key, o)
                    EXCEPT !.exc = o,
                           !.data_read = IF o = NoExc THEN objects[ctx[t].key] ELSE @]]
          /\ Goto(t, IF o = NoExc THEN "rv_read_meta" ELSE "ret")
    /\ UNCHANGED <<objects, _read_cache>>
    /\ FacadeFrame

\* lines 317-326 on the metadata read at line 315
FinishReadVersion(c0, metadata_json) ==
    LET c == [c0 EXCEPT !.metadata_json = metadata_json]
        data == c.data_read[1]
        d == _decode_metadata(metadata_json, Len(data), _dict_hmac)
        u == IF _TRANSFORMS_KEY \in DOMAIN d.metadata
             THEN _decapsulate(data, d.metadata[_TRANSFORMS_KEY])
             ELSE [exc |-> NoExc, data |-> data]
    IN IF d.exc # NoExc THEN [c EXCEPT !.exc = d.exc]
       ELSE IF u.exc # NoExc THEN [c EXCEPT !.exc = u.exc]
       ELSE IF Len(u.data) # d.metadata[_SIZE_KEY] THEN [c EXCEPT !.exc = "ValueError"]
       ELSE [c EXCEPT !.text = utf8_decode(u.data), !.value = Some(u.data)]

\* line 315 and what follows it
RvReadMeta(t) ==
    /\ pc[t] = "rv_read_meta"
    /\ \E o \in ReadOutcomes(ctx[t].metadata_key) :
          /\ Spend(o)
          /\ LET c == LogCall(ctx[t], "read", ctx[t].metadata_key, o) IN
             ctx' = [ctx EXCEPT ![t] =
                       IF o = NoExc
                       THEN FinishReadVersion(c, objects[ctx[t].metadata_key][1])
                       ELSE [c EXCEPT !.exc = o]]
          /\ Goto(t, "ret")
    /\ UNCHANGED <<objects, _read_cache>>
    /\ FacadeFrame

\* ------------------------------------------------ F rm_version (361-370)
CallRmVersion(t, uids) ==
    /\ pc[t] = "idle"
    /\ \E uid \in uids :
          ctx' = [ctx EXCEPT ![t] =
                    [NewCtx(t, "rm_version") EXCEPT
                        !.block = [NoBlock EXCEPT !.uid = uid],
                        !.key = _version_uid_to_key(uid),
                        !.metadata_key = MetaKey(_version_uid_to_key(uid))]]
    /\ Goto(t, "rm_data")
    /\ UNCHANGED <<objects, faults, _read_cache>>
    /\ FacadeFrame

\* ------------------------------------------------ E concurrency engine
\* concurrent.futures: a Future is PENDING when submitted, RUNNING once a worker
\* has taken it, FINISHED with a result or an exception; cancel() turns a PENDING
\* future CANCELLED, and the worker that takes it from the queue turns it
\* CANCELLED_AND_NOTIFIED, which is when as_completed sees it.
\* raised: what the job's _write / _read raised; exc: what the Future captured;
\* dropped: close() took the future off its list unyielded.
NoFuture ==
    [kind |-> "none", state |-> "NONE", exc |-> NoExc, raised |-> NoExc,
     dropped |-> FALSE, block |-> NoBlock, data |-> <<>>, metadata_only |-> FALSE]
DoneStates == {"FINISHED", "CANCELLED_AND_NOTIFIED"}
NumJobs == Cardinality({j \in Jobs : futures[j].kind # "none"})
Range(seq) == {seq[i] : i \in DOMAIN seq}
Remove(seq, x) == SelectSeq(seq, LAMBDA y : y # x)
Pos(seq, x) == CHOOSE i \in DOMAIN seq : seq[i] = x
\* the futures of a list that as_completed can hand out
Ready(list) == {j \in Range(list) : futures[j].state \in DoneStates}
\* ... and the one of them that completed first
FirstCompleted(list) ==
    CHOOSE j \in Ready(list) :
        \A k \in Ready(list) : Pos(completed, j) <= Pos(completed, k)
PoolFrame == UNCHANGED <<config_vars, store_vars>>

\* ----- save(block, data, sync=False) (181-195), in the submitting thread
\* the call is entered
CallSaveAsync(t, blocks, payloads) ==
    /\ pc[t] = "idle"
    /\ NumJobs < MaxJobs
    /\ \E block \in blocks, data \in payloads :
          ctx' = [ctx EXCEPT ![t] = [IdleCtx EXCEPT !.op = "save_async",
                                        !.block = block, !.data = data]]
    /\ Goto(t, "save_acquire")
    /\ UNCHANGED pool_vars
    /\ PoolFrame

\* SaveAcquire that takes no permit and never waits
SaveAcquire_NoWait(t) ==
    /\ pc[t] = "save_acquire"
    /\ Goto(t, "save_submit")
    /\ UNCHANGED <<ctx, pool_vars>>
    /\ PoolFrame

\* line 185: self._write_semaphore.acquire() waits for a permit
SaveAcquire(t) ==
    /\ pc[t] = "save_acquire"
    /\ _write_semaphore > 0
    /\ _write_semaphore' = _write_semaphore - 1
    /\ Goto(t, "save_submit")
    /\ UNCHANGED <<ctx, _read_semaphore, _write_futures, _read_futures, futures,
                   write_queue, read_queue, running, shut, completed, yielded>>
    /\ PoolFrame

\* SaveSubmit that submits the job and does not keep its future
SaveSubmit_NoAppend(t) ==
    /\ pc[t] = "save_submit"
    /\ "write" \notin shut
    /\ LET j == NumJobs + 1 IN
          /\ futures' = [futures EXCEPT ![j] =
                            [NoFuture EXCEPT !.kind = "write", !.state = "PENDING",
                                !.block = ctx[t].block, !.data = ctx[t].data]]
          /\ write_queue' = Append(write_queue, j)
    /\ ctx' = [ctx EXCEPT ![t] = IdleCtx]
    /\ Goto(t, "idle")
    /\ UNCHANGED <<_write_semaphore, _read_semaphore, _write_futures, _read_futures,
                   read_queue, running, shut, completed, yielded>>
    /\ PoolFrame

\* line 195: self._write_futures.append(self._write_executor.submit(...)); submit
\* raises RuntimeError once the executor is shut down
SaveSubmit(t) ==
    /\ pc[t] = "save_submit"
    /\ IF "write" \in shut
       THEN /\ ctx' = [ctx EXCEPT ![t] = [IdleCtx EXCEPT !.op = "save_async",
                                             !.exc = "RuntimeError"]]
            /\ UNCHANGED <<futures, write_queue, _write_futures>>
       ELSE LET j == NumJobs + 1 IN
            /\ futures' = [futures EXCEPT ![j] =
                              [NoFuture EXCEPT !.kind = "write", !.state = "PENDING",
                                  !.block = ctx[t].block, !.data = ctx[t].data]]
            /\ write_queue' = Append(write_queue, j)
            /\ _write_futures' = Append(_write_futures, j)
            /\ ctx' = [ctx EXCEPT ![t] = IdleCtx]
    /\ Goto(t, "idle")
    /\ UNCHANGED <<_write_semaphore, _read_semaphore, _read_futures,
                   read_queue, running, shut, completed, yielded>>
    /\ PoolFrame

\* ----- the write job: write_with_release (187-193), in a worker of the pool
\* the worker takes the next work item; a cancelled one is only notified
WriteJobStart(w) ==
    /\ pc[w] = "idle"
    /\ write_queue # <<>>
    /\ LET j == Head(write_queue) IN
          /\ write_queue' = Tail(write_queue)
          /\ IF futures[j].state = "CANCELLED"
             THEN /\ futures' = [futures EXCEPT ![j].state = "CANCELLED_AND_NOTIFIED"]
                  /\ completed' = Append(completed, j)
                  /\ UNCHANGED <<pc, ctx, running>>
             ELSE /\ futures' = [futures EXCEPT ![j].state = "RUNNING"]
                  /\ running' = [running EXCEPT ![w] = j]
                  /\ ctx' = [ctx EXCEPT ![w] =
                                [BeginWrite(w, "save", futures[j].block, futures[j].data)
                                    EXCEPT !.prev = NoPrev]]
                  /\ Goto(w, "write_data")
                  /\ UNCHANGED completed
    /\ UNCHANGED <<_write_semaphore, _read_semaphore, _write_futures, _read_futures,
                   read_queue, shut, yielded>>
    /\ PoolFrame

\* line 193, the finally block: self._write_semaphore.release()
WriteJobRelease(w) ==
    /\ pc[w] = "ret"
    /\ _write_semaphore' = _write_semaphore + 1
    /\ Goto(w, "released")
    /\ UNCHANGED <<ctx, _read_semaphore, _write_futures, _read_futures, futures,
                   write_queue, read_queue, running, shut, completed, yielded>>
    /\ PoolFrame

\* the outcome of the job function reaches its Future
FinishJob(w, exc) ==
    /\ futures' = [futures EXCEPT ![running[w]] =
                      [@ EXCEPT !.state = "FINISHED", !.raised = ctx[w].exc,
                                !.exc = exc]]
    /\ completed' = Append(completed, running[w])
    /\ running' = [running EXCEPT ![w] = 0]
    /\ ctx' = [ctx EXCEPT ![w] = IdleCtx]
    /\ Goto(w, "idle")

\* WriteJobDone whose wrapper swallows the exception of _write
WriteJobDone_Swallow(w) ==
    /\ pc[w] = "released"
    /\ FinishJob(w, NoExc)
    /\ UNCHANGED <<_write_semaphore, _read_semaphore, _write_futures, _read_futures,
                   write_queue, read_queue, shut, yielded>>
    /\ PoolFrame

\* lines 188-191: the block is returned, or the exception raised again, and the
\* Future is finished with it
WriteJobDone(w) ==
    /\ pc[w] = "released"
    /\ FinishJob(w, ctx[w].exc)
    /\ UNCHANGED <<_write_semaphore, _read_semaphore, _write_futures, _read_futures,
                   write_queue, read_queue, shut, yielded>>
    /\ PoolFrame

\* ----- read(block, sync=False, metadata_only) (230-240): submit, never wait
ReadAsync(t, blocks, modes) ==
    /\ pc[t] = "idle"
    /\ NumJobs < MaxJobs
    /\ IF "read" \in shut
       THEN /\ ctx' = [ctx EXCEPT ![t] = [IdleCtx EXCEPT !.op = "read_async",
                                             !.exc = "RuntimeError"]]
            /\ UNCHANGED <<futures, read_queue, _read_futures>>
       ELSE \E block \in blocks, metadata_only \in modes :
            LET j == NumJobs + 1 IN
            /\ futures' = [futures EXCEPT ![j] =
                              [NoFuture EXCEPT !.kind = "read", !.state = "PENDING",
                                  !.block = block, !.metadata_only = metadata_only]]
            /\ read_queue' = Append(read_queue, j)
            /\ _read_futures' = Append(_read_futures, j)
            /\ ctx' = [ctx EXCEPT ![t] = IdleCtx]
    /\ UNCHANGED <<pc, _write_semaphore, _read_semaphore, _write_futures,
                   write_queue, running, shut, completed, yielded>>
    /\ PoolFrame

\* ----- the read job: read_with_acquire (235-237), in a worker of the pool
ReadJobStart(w) ==
    /\ pc[w] = "idle"
    /\ read_queue # <<>>
    /\ LET j == Head(read_queue) IN
          /\ read_queue' = Tail(read_queue)
          /\ IF futures[j].state = "CANCELLED"
             THEN /\ futures' = [futures EXCEPT ![j].state = "CANCELLED_AND_NOTIFIED"]
                  /\ completed' = Append(completed, j)
                  /\ UNCHANGED <<pc, ctx, running>>
             ELSE /\ futures' = [futures EXCEPT ![j].state = "RUNNING"]
                  /\ running' = [running EXCEPT ![w] = j]
                  /\ ctx' = [ctx EXCEPT ![w] = [IdleCtx EXCEPT !.op = "read"]]
                  /\ Goto(w, "read_acquire")
                  /\ UNCHANGED completed
    /\ UNCHANGED <<_write_semaphore, _read_semaphore, _write_futures, _read_futures,
                   write_queue, shut, yielded>>
    /\ PoolFrame

\* ReadJobAcquire that waits for a permit and does not take it
ReadJobAcquire_NoTake(w) ==
    /\ pc[w] = "read_acquire"
    /\ _read_semaphore > 0
    /\ LET j == running[w]
           hit == CacheHit(_block_uid_to_key(futures[j].block.uid),
                           futures[j].metadata_only)
       IN /\ ctx' = [ctx EXCEPT ![w] =
                        [BeginRead(w, "read", futures[j].block, futures[j].metadata_only)
                            EXCEPT !.prev = NoPrev]]
          /\ Goto(w, IF hit THEN "ret" ELSE "read_data")
    /\ UNCHANGED pool_vars
    /\ PoolFrame

\* ReadJobAcquire that takes no permit and never waits
ReadJobAcquire_NoWait(w) ==
    /\ pc[w] = "read_acquire"
    /\ LET j == running[w]
           hit == CacheHit(_block_uid_to_key(futures[j].block.uid),
                           futures[j].metadata_only)
       IN /\ ctx' = [ctx EXCEPT ![w] =
                        [BeginRead(w, "read", futures[j].block, futures[j].metadata_only)
                            EXCEPT !.prev = NoPrev]]
          /\ Goto(w, IF hit THEN "ret" ELSE "read_data")
    /\ UNCHANGED pool_vars
    /\ PoolFrame

\* line 236: self._read_semaphore.acquire() waits for a permit, in the worker;
\* line 237: self._read(block, metadata_only) begins
ReadJobAcquire(w) ==
    /\ pc[w] = "read_acquire"
    /\ _read_semaphore > 0
    /\ _read_semaphore' = _read_semaphore - 1
    /\ LET j == running[w]
           hit == CacheHit(_block_uid_to_key(futures[j].block.uid),
                           futures[j].metadata_only)
       IN /\ ctx' = [ctx EXCEPT ![w] =
                        [BeginRead(w, "read", futures[j].block, futures[j].metadata_only)
                            EXCEPT !.prev = NoPrev]]
          /\ Goto(w, IF hit THEN "ret" ELSE "read_data")
    /\ UNCHANGED <<_write_semaphore, _write_futures, _read_futures, futures,
                   write_queue, read_queue, running, shut, completed, yielded>>
    /\ PoolFrame

\* the result of read_with_acquire, or its exception, finishes the Future
ReadJobDone(w) ==
    /\ pc[w] = "ret"
    /\ FinishJob(w, ctx[w].exc)
    /\ UNCHANGED <<_write_semaphore, _read_semaphore, _write_futures, _read_futures,
                   write_queue, read_queue, shut, yielded>>
    /\ PoolFrame

\* ----- the completion streams (197-200, 242-246)
\* future_results_as_completed(futures, semaphore): the next completed future
\* leaves the list, a permit of the semaphore (the read stream's) is released for
\* it unless it was cancelled before it ran (such a job took no permit), and its
\* result, or the exception it captured, is the item yielded
Item(j) == IF futures[j].state = "CANCELLED_AND_NOTIFIED" THEN "CancelledError"
           ELSE IF futures[j].exc # NoExc THEN futures[j].exc
           ELSE "result"
Yield(j, to) == yielded' = Append(yielded, [job |-> j, item |-> Item(j), to |-> to])
ReleaseFor(j) ==
    _read_semaphore' = IF futures[j].state = "FINISHED" THEN _read_semaphore + 1
                       ELSE _read_semaphore

\* one item taken from save_get_completed() by the caller
SaveGetCompleted(t) ==
    /\ pc[t] = "idle"
    /\ Ready(_write_futures) # {}
    /\ LET j == FirstCompleted(_write_futures) IN
          /\ _write_futures' = Remove(_write_futures, j)
          /\ Yield(j, "caller")
    /\ UNCHANGED <<pc, ctx, _write_semaphore, _read_semaphore, _read_futures, futures,
                   write_queue, read_queue, running, shut, completed>>
    /\ PoolFrame

\* one item taken from read_get_completed() by the caller
ReadGetCompleted(t) ==
    /\ pc[t] = "idle"
    /\ Ready(_read_futures) # {}
    /\ LET j == FirstCompleted(_read_futures) IN
          /\ _read_futures' = Remove(_read_futures, j)
          /\ ReleaseFor(j)
          /\ Yield(j, "caller")
    /\ UNCHANGED <<pc, ctx, _write_semaphore, _write_futures, futures,
                   write_queue, read_queue, running, shut, completed>>
    /\ PoolFrame

\* ----- close() (412-432)
Cancel(f) == IF f.state = "PENDING" THEN [f EXCEPT !.state = "CANCELLED"] ELSE f

\* lines 413-418: with read futures outstanding, each is cancelled
CloseBegin(t) ==
    /\ pc[t] = "idle"
    /\ shut = {}
    /\ ctx' = [ctx EXCEPT ![t] = [IdleCtx EXCEPT !.op = "close"]]
    /\ IF Len(_read_futures) > 0
       THEN /\ futures' = [j \in Jobs |-> IF j \in Range(_read_futures)
                                          THEN Cancel(futures[j]) ELSE futures[j]]
            /\ Goto(t, "close_drain")
       ELSE /\ UNCHANGED futures
            /\ Goto(t, "close_writes")
    /\ UNCHANGED <<_write_semaphore, _read_semaphore, _write_futures, _read_futures,
                   write_queue, read_queue, running, shut, completed, yielded>>
    /\ PoolFrame

\* lines 420-421: for result in self.read_get_completed(): pass
CloseDrain(t) ==
    /\ pc[t] = "close_drain"
    /\ IF _read_futures = <<>>
       THEN /\ Goto(t, "close_writes")
            /\ UNCHANGED <<_read_futures, _read_semaphore, yielded>>
       ELSE /\ Ready(_read_futures) # {}
            /\ LET j == FirstCompleted(_read_futures) IN
                  /\ _read_futures' = Remove(_read_futures, j)
                  /\ ReleaseFor(j)
                  /\ Yield(j, "close")
            /\ UNCHANGED pc
    /\ UNCHANGED <<ctx, _write_semaphore, _write_futures, futures,
                   write_queue, read_queue, running, shut, completed>>
    /\ PoolFrame

\* lines 423-430: with write futures outstanding, each is cancelled and the list
\* is emptied; line 431 begins the shutdown of the write executor
CloseWrites(t) ==
    /\ pc[t] = "close_writes"
    /\ futures' = [j \in Jobs |-> IF j \in Range(_write_futures)
                                  THEN [Cancel(futures[j]) EXCEPT !.dropped = TRUE]
                                  ELSE futures[j]]
    /\ _write_futures' = <<>>
    /\ shut' = shut \cup {"write"}
    /\ Goto(t, "close_join_writers")
    /\ UNCHANGED <<ctx, _write_semaphore, _read_semaphore, _read_futures,
                   write_queue, read_queue, running, completed, yielded>>
    /\ PoolFrame

\* CloseJoinWriters that does not wait for the writers
CloseJoinWriters_NoWait(t) ==
    /\ pc[t] = "close_join_writers"
    /\ shut' = shut \cup {"read"}
    /\ Goto(t, "close_join_readers")
    /\ UNCHANGED <<ctx, _write_semaphore, _read_semaphore, _write_futures, _read_futures,
                   futures, write_queue, read_queue, running, completed, yielded>>
    /\ PoolFrame

\* line 431: self._write_executor.shutdown() returns when the queue is empty and
\* every writer is idle; line 432 begins the shutdown of the read executor
CloseJoinWriters(t) ==
    /\ pc[t] = "close_join_writers"
    /\ write_queue = <<>>
    /\ \A w \in WriteWorkers : pc[w] = "idle"
    /\ shut' = shut \cup {"read"}
    /\ Goto(t, "close_join_readers")
    /\ UNCHANGED <<ctx, _write_semaphore, _read_semaphore, _write_futures, _read_futures,
                   futures, write_queue, read_queue, running, completed, yielded>>
    /\ PoolFrame

\* line 432: self._read_executor.shutdown() returns likewise, and close() returns
CloseJoinReaders(t) ==
    /\ pc[t] = "close_join_readers"
    /\ read_queue = <<>>
    /\ \A w \in ReadWorkers : pc[w] = "idle"
    /\ ctx' = [ctx EXCEPT ![t] = [IdleCtx EXCEPT !.op = "closed"]]
    /\ Goto(t, "idle")
    /\ UNCHANGED pool_vars
    /\ PoolFrame

\* ----------------------------------------------------------- construction
\* __init__ (43-92): both pools idle, both semaphores full, no future yet
InitPool ==
    /\ _write_semaphore = simultaneousWrites + WRITE_QUEUE_LENGTH
    /\ _read_semaphore = simultaneousReads + READ_QUEUE_LENGTH
    /\ _write_futures = <<>>
    /\ _read_futures = <<>>
    /\ futures = [j \in Jobs |-> NoFuture]
    /\ write_queue = <<>>
    /\ read_queue = <<>>
    /\ running = [w \in Workers |-> 0]
    /\ shut = {}
    /\ completed = <<>>
    /\ yielded = <<>>

\* an empty backend, an empty cache, every thread idle
InitStore ==
    /\ objects = [k \in AllKeys |-> NoneBytes]
    /\ _read_cache = [k \in AllKeys |-> NoneBytes]
    /\ _use_read_cache = TRUE
    /\ pc = [t \in Threads |-> "idle"]
    /\ ctx = [t \in Threads |-> IdleCtx]
    /\ faults = MaxFaults
    /\ raced = {}

C1T == <<"client", 1>>
\* the block handle a read is given: only its uid is used
ReadBlocks == {b \in Blocks : b.size = 0 /\ b.checksum = None}

\* ---- round trips: one client saves and reads one block, under every chain of
\* transforms, with and without HMAC; no cache, no consistency check
InitRT ==
    /\ InitPool /\ InitStore
    /\ has_read_cache = FALSE
    /\ _active_transforms \in Chains
    /\ _consistency_check_writes = FALSE
    /\ _dict_hmac \in BOOLEAN
    /\ input \in [block : Blocks, data : Payloads]

NextRT ==
    \/ CallSave(C1T, {input.block}, {input.data})
    \/ WriteData(C1T) \/ WriteMeta(C1T) \/ CleanupData(C1T) \/ CleanupMeta(C1T)
    \/ CallRead(C1T, ReadBlocks)
    \/ ReadData(C1T) \/ ReadMeta(C1T)
    \/ Return(C1T)

SpecRT == InitRT /\ [][NextRT]_vars

\* a read of the block's data by client t has ended, right after a save of t that
\* completed without error, and no backend call of the read failed
ReadAfterSave(t) ==
    /\ pc[t] = "idle"
    /\ ctx[t].op = "read" /\ ~ctx[t].metadata_only
    /\ ctx[t].prev.op = "save" /\ ctx[t].prev.exc = NoExc
    /\ ctx[t].exc \notin FaultExcs

\* C3: round trip. Once save(b, d) has completed without error, a following
\* read(b) with metadata_only = false succeeds and returns data equal to d, for
\* every block b (checksum a hex string or null, any size), every payload d and
\* every transform chain.
C3_RoundTrip ==
    ReadAfterSave(C1T) =>
        /\ ctx[C1T].exc = NoExc
        /\ ctx[C1T].value = Some(ctx[C1T].prev.data)

\* ---- the facade with and without the read cache: one client saves, reads and
\* removes one block and toggles the cache; no transforms, no HMAC
CheckedBlocks == {b \in Blocks : b.size = MaxLen /\ b.checksum = "abcd"}

InitCache ==
    /\ InitPool /\ InitStore
    /\ has_read_cache \in BOOLEAN
    /\ _active_transforms = <<>>
    /\ _consistency_check_writes = FALSE
    /\ _dict_hmac = FALSE
    /\ input = [block |-> NoBlock, data |-> <<>>]

NextCache ==
    \/ CallSave(C1T, CheckedBlocks, Payloads)
    \/ WriteData(C1T) \/ WriteMeta(C1T) \/ CleanupData(C1T) \/ CleanupMeta(C1T)
    \/ CallRead(C1T, ReadBlocks)
    \/ ReadData(C1T) \/ ReadMeta(C1T)
    \/ CallRm(C1T, BlockUids)
    \/ RmData(C1T) \/ RmMeta(C1T)
    \/ UseReadCache(C1T)
    \/ Return(C1T)

SpecCache == InitCache /\ [][NextCache]_vars

\* a read by client t has ended, right after an rm of t that returned normally
ReadAfterRm(t) ==
    /\ pc[t] = "idle"
    /\ ctx[t].op = "read"
    /\ ctx[t].prev.op = "rm" /\ ctx[t].prev.exc = NoExc

\* C4: delete then read. Once rm(uid) has returned, a read of that uid fails with
\* NotFound (FileNotFoundError, unless the backend call itself failed) and returns
\* no data, without the read cache and with it configured and enabled.
C4_ReadAfterRmNotFound ==
    ReadAfterRm(C1T) =>
        /\ ctx[C1T].exc # NoExc
        /\ ctx[C1T].exc \notin FaultExcs => ctx[C1T].exc = "FileNotFoundError"
        /\ ctx[C1T].value = NoneBytes

\* ---- the facade used by two clients at once: saves, removals and listings of
\* one block interleave at the backend calls, which may fail
C2T == <<"client", 2>>
LongPayloads == {d \in Payloads : Len(d) = MaxLen}

Init ==
    /\ InitPool /\ InitStore
    /\ has_read_cache = FALSE
    /\ _active_transforms = <<>>
    /\ _consistency_check_writes = FALSE
    /\ _dict_hmac = FALSE
    /\ input = [block |-> NoBlock, data |-> <<>>]

Next ==
    \E t \in Clients :
        \/ CallSave(t, CheckedBlocks, LongPayloads)
        \/ WriteData(t) \/ WriteMeta(t) \/ CleanupData(t) \/ CleanupMeta(t)
        \/ CallRm(t, BlockUids)
        \/ RmData(t) \/ RmMeta(t)
        \/ CallRmMany(t, BlockUids)
        \/ RmManyData(t) \/ RmManyMeta(t)
        \/ ListBlocks(t)
        \/ Leave(t)

Spec == Init /\ [][Next]_vars

HasMeta(uid) == objects[MetaKey(_block_uid_to_key(uid))] # NoneBytes

WriteFailed(log) == \E i \in DOMAIN log : log[i].call = "write" /\ log[i].exc # NoExc
RmAttempted(log, key) == \E i \in DOMAIN log : log[i].call = "rm" /\ log[i].key = key

\* C8: save failure cleanup. Whenever the payload write or the metadata write of a
\* save or save_version has failed, by the time the call raises the writer has
\* attempted the removal of the payload key and the removal of the .meta key
\* (NotFound on one does not skip the other), and what it raises is the write's
\* failure.
C8_CleanupBoth ==
    \A t \in Clients :
        (/\ pc[t] = "ret"
         /\ ctx[t].op \in {"save", "save_version"}
         /\ WriteFailed(ctx[t].log)) =>
            /\ RmAttempted(ctx[t].log, ctx[t].key)
            /\ RmAttempted(ctx[t].log, ctx[t].metadata_key)
            /\ ctx[t].exc = "WriteError"

\* the j-th backend call of a call record came before its i-th
Earlier(log, i, P(_)) == \E j \in 1..(i - 1) : P(log[j])

\* C10: per-object ordering. Within a single save the .meta key is written only
\* after the write of the payload key has returned successfully; within a single
\* rm the delete of the payload key is issued before the delete of the .meta key.
C10_Ordering ==
    \A t \in Clients :
        LET c == ctx[t] IN
        /\ c.op = "save" =>
             \A i \in DOMAIN c.log :
                (c.log[i].call = "write" /\ c.log[i].key = c.metadata_key) =>
                    Earlier(c.log, i, LAMBDA e : /\ e.call = "write"
                                                 /\ e.key = c.key
                                                 /\ e.exc = NoExc)
        /\ c.op = "rm" =>
             \A i \in DOMAIN c.log :
                (c.log[i].call = "rm" /\ c.log[i].key = c.metadata_key) =>
                    Earlier(c.log, i, LAMBDA e : e.call = "rm" /\ e.key = c.key)

\* one client has written payload and metadata, the other has deleted both
C10_Witness ==
    /\ pc[C1T] = "ret" /\ ctx[C1T].op = "save"
    /\ ctx[C1T].exc = NoExc /\ Len(ctx[C1T].log) = 2
    /\ pc[C2T] = "ret" /\ ctx[C2T].op = "rm"
    /\ ctx[C2T].exc = NoExc /\ Len(ctx[C2T].log) = 2

\* ---- versions: one client saves, reads and removes one version, under every
\* chain of transforms, with and without the consistency check
InitVersion ==
    /\ InitPool /\ InitStore
    /\ has_read_cache = FALSE
    /\ _active_transforms \in Chains
    /\ _consistency_check_writes \in BOOLEAN
    /\ _dict_hmac = FALSE
    /\ input = [block |-> NoBlock, data |-> <<>>]

NextVersion ==
    \/ CallSaveVersion(C1T, VersionUids, Texts)
    \/ SvProbe(C1T)
    \/ SvWriteData(C1T) \/ SvWriteMeta(C1T)
    \/ SvCleanupData(C1T) \/ SvCleanupMeta(C1T)
    \/ CheckReadData(C1T) \/ CheckReadMeta(C1T)
    \/ CallReadVersion(C1T, VersionUids)
    \/ RvReadData(C1T) \/ RvReadMeta(C1T)
    \/ CallRmVersion(C1T, VersionUids)
    \/ RmData(C1T) \/ RmMeta(C1T)
    \/ Return(C1T)

SpecVersion == InitVersion /\ [][NextVersion]_vars

\* what save_version(uid, text) stores when it succeeds
StoredVersion(text) ==
    LET e == _encapsulate(_active_transforms, utf8_encode(text)) IN
    [data |-> Some(e.data),
     metadata_json |-> Some(_build_metadata(Len(utf8_encode(text)), Len(e.data),
                                            e.transforms_metadata, None, _dict_hmac))]
\* client t's call op has ended without a failing backend call, right after a
\* save_version of t that succeeded
AfterSavedVersion(t, op) ==
    /\ pc[t] = "idle"
    /\ ctx[t].op = op
    /\ ctx[t].exc \notin FaultExcs
    /\ ctx[t].prev.op = "save_version" /\ ctx[t].prev.exc = NoExc
    /\ ctx[t].prev.uid = ctx[t].block.uid

\* C9: version overwrite guard, sequential. After save_version(uid, x) has
\* succeeded, save_version(uid, y, overwrite=False) fails with AlreadyExists
\* (FileExistsError) and leaves the stored payload and metadata of uid as x's;
\* save_version(uid, y, overwrite=True) succeeds, and after a successful
\* save_version(uid, y) read_version(uid) returns y.
C9_OverwriteGuard ==
    LET c == ctx[C1T] IN
    /\ (AfterSavedVersion(C1T, "save_version") /\ ~c.overwrite) =>
          /\ c.exc = "FileExistsError"
          /\ objects[c.key] = StoredVersion(c.prev.text).data
          /\ objects[c.metadata_key] = StoredVersion(c.prev.text).metadata_json
    /\ (AfterSavedVersion(C1T, "save_version") /\ c.overwrite) =>
          /\ c.exc = NoExc
          /\ objects[c.key] = StoredVersion(c.text).data
    /\ AfterSavedVersion(C1T, "read_version") =>
          /\ c.exc = NoExc
          /\ c.text = c.prev.text

\* a second save_version of another text without overwrite has been refused
C9_Witness ==
    /\ AfterSavedVersion(C1T, "save_version")
    /\ ~ctx[C1T].overwrite
    /\ ctx[C1T].text # ctx[C1T].prev.text
    /\ ctx[C1T].exc = "FileExistsError"

\* ---- the pools: the main thread submits saves and reads of one block, takes
\* items from the completion streams and closes; the workers run the jobs
InitEngine ==
    /\ InitPool /\ InitStore
    /\ has_read_cache = FALSE
    /\ _active_transforms = <<>>
    /\ _consistency_check_writes = FALSE
    /\ _dict_hmac = FALSE
    /\ input = [block |-> NoBlock, data |-> <<>>]

WriterNext(w) ==
    \/ WriteJobStart(w)
    \/ WriteData(w) \/ WriteMeta(w) \/ CleanupData(w) \/ CleanupMeta(w)
    \/ WriteJobRelease(w)
    \/ WriteJobDone(w)

ReaderNext(w) ==
    \/ ReadJobStart(w)
    \/ ReadJobAcquire(w)
    \/ ReadData(w) \/ ReadMeta(w)
    \/ ReadJobDone(w)

SubmitSaves ==
    \/ CallSaveAsync(Main, CheckedBlocks, LongPayloads)
    \/ SaveAcquire(Main)
    \/ SaveSubmit(Main)

CloseNext ==
    \/ CloseBegin(Main) \/ CloseDrain(Main) \/ CloseWrites(Main)
    \/ CloseJoinWriters(Main) \/ CloseJoinReaders(Main)

NextEngine ==
    \/ SubmitSaves
    \/ SaveGetCompleted(Main)
    \/ ReadAsync(Main, ReadBlocks, {FALSE})
    \/ ReadGetCompleted(Main)
    \/ CloseNext
    \/ \E w \in WriteWorkers : WriterNext(w)
    \/ \E w \in ReadWorkers : ReaderNext(w)

SpecEngine == InitEngine /\ [][NextEngine]_vars

\* ---- the write pool alone: asynchronous saves, their stream, and close with no
\* read outstanding
NextWrites ==
    \/ SubmitSaves
    \/ SaveGetCompleted(Main)
    \/ CloseBegin(Main) \/ CloseWrites(Main)
    \/ CloseJoinWriters(Main) \/ CloseJoinReaders(Main)
    \/ \E w \in WriteWorkers : WriterNext(w)

SpecWrites == InitEngine /\ [][NextWrites]_vars

\* ---- the read pool alone: the main thread saves the block synchronously,
\* submits asynchronous reads of it, takes items from their stream, and closes
SyncSave(t) ==
    \/ CallSave(t, CheckedBlocks, LongPayloads)
    \/ WriteData(t) \/ WriteMeta(t) \/ CleanupData(t) \/ CleanupMeta(t)
    \/ Leave(t)

NextReads ==
    \/ SyncSave(Main)
    \/ ReadAsync(Main, ReadBlocks, {FALSE})
    \/ ReadGetCompleted(Main)
    \/ CloseNext
    \/ \E w \in ReadWorkers : ReaderNext(w)

SpecReads == InitEngine /\ [][NextReads]_vars

\* the asynchronous saves admitted: submitted, and write_with_release has not
\* yet left its finally block
Admitted ==
    {j \in Jobs :
        /\ futures[j].kind = "write"
        /\ \/ futures[j].state = "PENDING"
           \/ /\ futures[j].state = "RUNNING"
              /\ \A w \in WriteWorkers : running[w] = j => pc[w] # "released"}

\* C1: at most simultaneousWrites + WRITE_QUEUE_LENGTH asynchronous saves are
\* admitted in any reachable state, and a caller that waits in save(sync=False)
\* while that many are admitted stays in save
C1_WriteBackpressure ==
    /\ [](Cardinality(Admitted) <= simultaneousWrites + WRITE_QUEUE_LENGTH)
    /\ [][(/\ pc[Main] = "save_acquire"
           /\ Cardinality(Admitted) = simultaneousWrites + WRITE_QUEUE_LENGTH)
          => pc'[Main] = "save_acquire"]_vars

\* the pool is full and a further caller waits in save
C1_Witness ==
    /\ pc[Main] = "save_acquire"
    /\ Cardinality(Admitted) = simultaneousWrites + WRITE_QUEUE_LENGTH
    /\ _write_semaphore = 0

Started ==
    {j \in Range(_read_futures) :
        \/ futures[j].state = "FINISHED"
        \/ /\ futures[j].state = "RUNNING"
           /\ \A w \in ReadWorkers : running[w] = j => pc[w] # "read_acquire"}

NextSaves ==
    \/ SubmitSaves
    \/ SaveGetCompleted(Main)
    \/ \E w \in WriteWorkers : WriterNext(w)

SpecSaves ==
    /\ InitEngine /\ [][NextSaves]_vars
    /\ WF_vars(SaveAcquire(Main)) /\ WF_vars(SaveSubmit(Main))
    /\ WF_vars(SaveGetCompleted(Main))
    /\ \A w \in WriteWorkers : WF_vars(WriterNext(w))

Yields(j) == Cardinality({i \in DOMAIN yielded : yielded[i].job = j})
Outcome(j) == IF futures[j].raised = NoExc THEN "result" ELSE futures[j].raised

ListOf(j) == IF futures[j].kind = "write" THEN _write_futures ELSE _read_futures
Failed(j) == futures[j].state = "FINISHED" /\ futures[j].raised # NoExc
Held(j) == j \in Range(ListOf(j)) /\ futures[j].exc = futures[j].raised
YieldedTo(j, to) ==
    \E i \in DOMAIN yielded :
        yielded[i] = [job |-> j, item |-> futures[j].raised, to |-> to]

\* C7 as stated: in every reachable state, close included, a job that raised is
\* still on its futures list or was yielded to the caller as that exception
C7_NoFailureDropped ==
    \A j \in Jobs : Failed(j) => Held(j) \/ YieldedTo(j, "caller")

\* C7 amended: a job that raised is still on its futures list with the exception
\* captured, or was yielded as that exception, to the caller or to the loop of
\* close() that drains the read stream, or is a write future close() discarded
C7_NoFailureDroppedAmended ==
    \A j \in Jobs :
        Failed(j) => \/ Held(j)
                     \/ YieldedTo(j, "caller")
                     \/ YieldedTo(j, "close")
                     \/ futures[j].kind = "write" /\ futures[j].dropped

\* a write job and a read job have failed, and both failures reached the caller
C7_Witness ==
    /\ shut = {}
    /\ \E j, k \in Jobs :
          /\ futures[j].kind = "write" /\ Failed(j) /\ YieldedTo(j, "caller")
          /\ futures[k].kind = "read" /\ Failed(k) /\ YieldedTo(k, "caller")

\* the object key of the backend call a thread is in: a thread at a label of a
\* backend call has issued that call and the call has not returned (<<>>: none)
PendingKey(t) ==
    IF pc[t] \in {"write_data", "cleanup_data", "check_read_data", "read_data",
                  "rm_data", "sv_probe", "sv_write_data", "sv_cleanup_data",
                  "rv_read_data"}
    THEN ctx[t].key
    ELSE IF pc[t] \in {"write_meta", "cleanup_meta", "check_read_meta", "read_meta",
                       "rm_meta", "sv_write_meta", "sv_cleanup_meta", "rv_read_meta"}
    THEN ctx[t].metadata_key
    ELSE <<>>

\* C11: no two threads of the facade are in backend calls that target the same
\* object key at the same time
C11_NoConcurrentKeyAccess ==
    \A t1, t2 \in Threads :
        (t1 # t2 /\ PendingKey(t1) # <<>>) => PendingKey(t1) # PendingKey(t2)

\* ---- the pools with close, where every worker keeps running, the backend
\* calls return, and a close() that was called keeps running
CloseSteps ==
    \/ CloseDrain(Main) \/ CloseWrites(Main)
    \/ CloseJoinWriters(Main) \/ CloseJoinReaders(Main)

SpecClose ==
    /\ InitEngine /\ [][NextEngine]_vars
    /\ WF_vars(CloseSteps)
    /\ \A w \in WriteWorkers : WF_vars(WriterNext(w))
    /\ \A w \in ReadWorkers : WF_vars(ReaderNext(w))

InClose ==
    pc[Main] \in {"close_drain", "close_writes", "close_join_writers",
                  "close_join_readers"}
Closed == shut = {"write", "read"} /\ pc[Main] # "close_join_readers"

\* C12: a close() that was called returns; the jobs it finds not yet started are
\* cancelled, a running job is never cancelled, and once close() has returned
\* no worker runs a job, every job is finished or cancelled, and both futures
\* lists are empty
C12_CloseProtocol ==
    /\ InClose ~> Closed
    /\ [](Closed => /\ \A w \in Workers : pc[w] = "idle" /\ running[w] = 0
                    /\ \A j \in Jobs : futures[j].kind # "none"
                                          => futures[j].state \in DoneStates
                    /\ _read_futures = <<>> /\ _write_futures = <<>>)
    /\ [][/\ (pc[Main] = "idle" /\ InClose')
             => \A j \in Range(_read_futures) :
                   futures[j].state = "PENDING" => futures'[j].state = "CANCELLED"
          /\ (pc[Main] = "close_writes" /\ pc'[Main] # "close_writes")
             => \A j \in Range(_write_futures) :
                   futures[j].state = "PENDING" => futures'[j].state = "CANCELLED"
          /\ \A j \in Jobs : futures[j].state = "RUNNING"
                                => futures'[j].state \in {"RUNNING", "FINISHED"}]_vars

\* close() has returned after it cancelled a queued read, drained a read outcome
\* and waited for a write job that was running
C12_Witness ==
    /\ Closed
    /\ \E j \in Jobs : futures[j].kind = "read"
                       /\ futures[j].state = "CANCELLED_AND_NOTIFIED"
    /\ \E i \in DOMAIN yielded : yielded[i].to = "close" /\ yielded[i].item = "result"
    /\ \E j \in Jobs : futures[j].kind = "write" /\ futures[j].dropped
                       /\ futures[j].state = "FINISHED"

\* a step of thread t that enters read(block, sync=True, ...)
ReadCalled(t) == pc[t] = "idle" /\ pc'[t] # "idle" /\ ctx'[t].op = "read"
\* the cache holds what an earlier read of the key stored for a read of this kind
Cached(key, metadata_only) ==
    /\ _read_cache[MetaKey(key)] # NoneBytes
    /\ metadata_only \/ _read_cache[key] # NoneBytes

\* C13: with the cache configured, a read entered while the cache is switched
\* off goes to the backend; a read that succeeds at the backend stores the
\* metadata, and the data when fetched, in the cache; a read entered while the
\* cache is switched on, of a key the cache holds from an earlier read, is
\* answered from the cache with no backend call; use_read_cache returns the value
\* in effect before the call
C13_CacheToggle ==
    [][/\ (ReadCalled(C1T) /\ ~_use_read_cache)
          => (pc'[C1T] = "read_data" /\ ~ctx'[C1T].from_cache)
       /\ (pc[C1T] = "read_meta" /\ pc'[C1T] = "ret" /\ ctx'[C1T].exc = NoExc
           /\ has_read_cache)
          => /\ _read_cache'[ctx[C1T].metadata_key] = ctx'[C1T].metadata
             /\ ctx[C1T].metadata_only \/ _read_cache'[ctx[C1T].key] = ctx'[C1T].value
       /\ (/\ ReadCalled(C1T) /\ has_read_cache /\ _use_read_cache
           /\ Cached(ctx'[C1T].key, ctx'[C1T].metadata_only))
          => (pc'[C1T] = "ret" /\ ctx'[C1T].from_cache /\ ctx'[C1T].log = <<>>)
       /\ (pc[C1T] = "idle" /\ pc'[C1T] = "idle" /\ ctx'[C1T].op = "use_read_cache")
          => ctx'[C1T].ret = {_use_read_cache}]_vars

\* ---- removals: one client saves, and removes, one block and one version;
\* backend calls may fail
InitRm ==
    /\ InitPool /\ InitStore
    /\ has_read_cache = FALSE
    /\ _active_transforms = <<>>
    /\ _consistency_check_writes = FALSE
    /\ _dict_hmac = FALSE
    /\ input = [block |-> NoBlock, data |-> <<>>]

NextRm ==
    \/ CallSave(C1T, CheckedBlocks, LongPayloads)
    \/ WriteData(C1T) \/ WriteMeta(C1T) \/ CleanupData(C1T) \/ CleanupMeta(C1T)
    \/ CallSaveVersion(C1T, VersionUids, {"a"})
    \/ SvProbe(C1T)
    \/ SvWriteData(C1T) \/ SvWriteMeta(C1T)
    \/ SvCleanupData(C1T) \/ SvCleanupMeta(C1T)
    \/ CallRm(C1T, BlockUids)
    \/ CallRmVersion(C1T, VersionUids)
    \/ RmData(C1T) \/ RmMeta(C1T)
    \/ Return(C1T)

SpecRm == InitRm /\ [][NextRm]_vars

\* thread t has made both deletes of an rm or rm_version
RmDone(t) == pc[t] = "ret" /\ ctx[t].op \in {"rm", "rm_version"}
NotFound == "FileNotFoundError"

\* C14 as stated: the .meta delete is attempted whatever the payload delete did;
\* a payload not found is what the caller gets; a payload deleted and a .meta not
\* found is a normal return; no .meta remains unless its delete failed with
\* another error
C14_RmAsymmetry ==
    RmDone(C1T) =>
        LET c == ctx[C1T] IN
        /\ Len(c.log) = 2
        /\ c.log[2].call = "rm" /\ c.log[2].key = c.metadata_key
        /\ c.log[1].exc = NotFound => c.exc = NotFound
        /\ (c.log[1].exc = NoExc /\ c.log[2].exc = NotFound)
              => (c.exc = NoExc /\ objects[c.key] = NoneBytes)
        /\ c.log[2].exc \notin FaultExcs => objects[c.metadata_key] = NoneBytes

\* C14 amended: as C14, but what the caller gets is the outcome of the payload
\* delete only when the .meta delete did not fail with an error other than not
\* found; when it did, that error is what rm raises
C14_RmAsymmetryAmended ==
    RmDone(C1T) =>
        LET c == ctx[C1T] IN
        /\ Len(c.log) = 2
        /\ c.log[2].call = "rm" /\ c.log[2].key = c.metadata_key
        /\ c.log[2].exc \notin FaultExcs => c.exc = c.log[1].exc
        /\ c.log[2].exc \in FaultExcs => c.exc = c.log[2].exc
        /\ (c.log[1].exc = NoExc /\ c.log[2].exc = NotFound)
              => (c.exc = NoExc /\ objects[c.key] = NoneBytes)
        /\ c.log[2].exc \notin FaultExcs => objects[c.metadata_key] = NoneBytes

\* an rm found no payload, deleted the .meta that was there, and raised not found
C14_Witness ==
    /\ RmDone(C1T)
    /\ ctx[C1T].log[1].exc = NotFound /\ ctx[C1T].log[2].exc = NoExc
    /\ ctx[C1T].exc = NotFound

\* ---- check_block_metadata on every block handle, length and metadata
NextCheck == CheckBlockMetadata(C1T, Blocks)

SpecCheck == InitRm /\ [][NextCheck]_vars

\* C15: check_block_metadata raises ValueError exactly when the metadata's size
\* differs from block.size, or a data_length is given (0 included) and differs
\* from block.size, or the metadata's checksum differs from block.checksum
C15_RejectsMismatch ==
    ctx[C1T].op = "check_block_metadata" =>
        LET c == ctx[C1T]
            metadata == c.metadata[1]
            mismatch == \/ metadata[_SIZE_KEY] # c.block.size
                        \/ c.length_arg # <<>> /\ c.length_arg[1] # c.block.size
                        \/ metadata[_CHECKSUM_KEY] # c.block.checksum
        IN c.exc = IF mismatch THEN "ValueError" ELSE NoExc

\* thread t has returned from a save that succeeded
Saved(t) == pc[t] = "ret" /\ ctx[t].op = "save" /\ ctx[t].exc = NoExc

\* C16: the metadata record a successful save(b, d) has written holds size =
\* len(d), object_size = the length of the bytes stored under the payload key,
\* and checksum = b.checksum
C16_MetadataOnSave ==
    Saved(C1T) =>
        LET c == ctx[C1T]
            metadata == json_loads(objects[c.metadata_key][1])
        IN /\ metadata[_SIZE_KEY] = Len(c.data)
           /\ metadata[_OBJECT_SIZE_KEY] = Len(objects[c.key][1])
           /\ _CHECKSUM_KEY \in DOMAIN metadata
           /\ metadata[_CHECKSUM_KEY] = c.block.checksum

\* thread t has returned from a read that fetched the metadata object
ReadThrottled(t) ==
    pc[t] = "ret" /\ ctx[t].op = "read" /\ ctx[t].metadata_json # <<>>

\* C17: the bytes a read passes to the read token bucket are the length of the
\* data when data was fetched, else 0, plus the length of the metadata object
C17_ReadThrottle ==
    ReadThrottled(C1T) =>
        LET c == ctx[C1T] IN
        c.consumed = (IF c.data_read # NoneBytes THEN Len(c.data_read[1]) ELSE 0)
                     + Len(c.metadata_json)

\* ---- integrity: one client saves and reads one block and one version against a
\* backend whose objects may be altered behind the engine's back; the consistency
\* check is on, with and without HMAC, with and without the read cache
\* a digest that was not made with the engine's key
ForgedDigest(m) == [secret |-> "x", content |-> json_dumps(DictDel(m, _HMAC_KEY))]

\* the records one alteration of a stored metadata object can produce: a changed
\* size or object_size, a removed object_size or checksum, a forged or removed hmac
TamperedMetadata(metadata_json) ==
    LET m == json_loads(metadata_json) IN
    {json_dumps(x) : x \in
        {[m EXCEPT ![k] = (@ + 1) % (MaxLen + 2)] :
            k \in {_SIZE_KEY, _OBJECT_SIZE_KEY} \cap DOMAIN m}
        \cup {DictDel(m, k) : k \in {_OBJECT_SIZE_KEY, _CHECKSUM_KEY, _HMAC_KEY}
                                      \cap DOMAIN m}
        \cup {DictSet(m, _HMAC_KEY, ForgedDigest(m))}}
     \ {metadata_json}

\* the payloads one alteration of a stored payload can produce: a changed first
\* byte, a byte appended, the last byte removed
TamperedData(data) ==
    {Append(data, 99)}
    \cup (IF data = <<>> THEN {}
          ELSE {[data EXCEPT ![1] = 99 - @], SubSeq(data, 1, Len(data) - 1)})

\* an object of the backend is altered from outside the engine
Tamper ==
    /\ faults > 0
    /\ \E key \in BlockKeys \cup VersionKeys :
          /\ objects[key] # NoneBytes /\ objects[MetaKey(key)] # NoneBytes
          /\ \/ \E j \in TamperedMetadata(objects[MetaKey(key)][1]) :
                    objects' = _write_object(objects, MetaKey(key), j)
             \/ \E d \in TamperedData(objects[key][1]) :
                    objects' = _write_object(objects, key, d)
    /\ faults' = faults - 1
    /\ UNCHANGED <<pc, ctx, _read_cache>>
    /\ FacadeFrame

IntegrityChains == {<<>>, <<"pfx">>}
IntegrityTexts == {"a"}

InitIntegrity ==
    /\ InitPool /\ InitStore
    /\ has_read_cache \in BOOLEAN
    /\ _active_transforms \in IntegrityChains
    /\ _consistency_check_writes = TRUE
    /\ _dict_hmac \in BOOLEAN
    /\ input = [block |-> NoBlock, data |-> <<>>]

NextIntegrity ==
    \/ CallSave(C1T, CheckedBlocks, LongPayloads)
    \/ WriteData(C1T) \/ WriteMeta(C1T) \/ CleanupData(C1T) \/ CleanupMeta(C1T)
    \/ CheckReadData(C1T) \/ CheckReadMeta(C1T)
    \/ CallRead(C1T, ReadBlocks)
    \/ ReadData(C1T) \/ ReadMeta(C1T)
    \/ CallSaveVersion(C1T, VersionUids, IntegrityTexts)
    \/ SvProbe(C1T)
    \/ SvWriteData(C1T) \/ SvWriteMeta(C1T)
    \/ SvCleanupData(C1T) \/ SvCleanupMeta(C1T)
    \/ CallReadVersion(C1T, VersionUids)
    \/ RvReadData(C1T) \/ RvReadMeta(C1T)
    \/ Return(C1T)
    \/ Tamper

SpecIntegrity == InitIntegrity /\ [][NextIntegrity]_vars

\* the metadata record thread t's call fetched from the backend (<<>>: none): by
\* the post-write check of a save, or by a read
FetchedRecord(t) ==
    IF ctx[t].op \in {"save", "save_version"} THEN ctx[t].metadata_actual_json
    ELSE IF ctx[t].op \in {"read", "read_version"} THEN ctx[t].metadata_json
    ELSE <<>>
\* thread t's call has ended after fetching a metadata record
FetchDone(t) == pc[t] = "ret" /\ FetchedRecord(t) # <<>>
\* the call of thread t hands no data to its caller
NoDataReturned(t) ==
    /\ ctx[t].value = NoneBytes /\ ctx[t].metadata = <<>>
    /\ ctx[t].op = "read_version" => ctx[t].text = ""

\* C18: HMAC first. Whenever the metadata record fetched for a read (by read,
\* read_version, the post-write check, or a read through the cache layer)
\* contains an hmac field, a record whose HMAC does not verify makes the call fail
\* with the integrity error, whatever else is wrong with the record, and no data
\* is returned.
C18_HmacFirst ==
    FetchDone(C1T) =>
        LET m == json_loads(FetchedRecord(C1T)) IN
        (_HMAC_KEY \in DOMAIN m /\ ~verify_hexdigest(m)) =>
            ctx[C1T].exc = "IntegrityError" /\ NoDataReturned(C1T)

\* C18 amended: whenever an HMAC key is configured, a fetched metadata record
\* whose HMAC does not verify makes the call fail with the integrity error,
\* whatever else is wrong with the record (a missing size or object_size, a length
\* that does not match, a missing checksum), and no data is returned; on read,
\* read_version, the post-write check and reads through the cache layer.
C18_HmacFirstAmended ==
    (FetchDone(C1T) /\ _dict_hmac) =>
        LET m == json_loads(FetchedRecord(C1T)) IN
        ~verify_hexdigest(m) =>
            ctx[C1T].exc = "IntegrityError" /\ NoDataReturned(C1T)

\* a read through the cache layer fetched a record whose HMAC does not verify and
\* that has no object_size either, and failed with the integrity error
C18_Witness ==
    /\ FetchDone(C1T) /\ _dict_hmac /\ has_read_cache
    /\ ctx[C1T].op = "read"
    /\ ~verify_hexdigest(json_loads(FetchedRecord(C1T)))
    /\ _OBJECT_SIZE_KEY \notin DOMAIN json_loads(FetchedRecord(C1T))
    /\ ctx[C1T].exc = "IntegrityError"

\* the post-write check of thread t's save has read the payload back and the call
\* has ended without a failing backend call
ReadBack(t) ==
    /\ pc[t] = "ret" /\ ctx[t].op \in {"save", "save_version"}
    /\ ctx[t].data_read # NoneBytes
    /\ ctx[t].metadata_actual_json # <<>>
\* how the metadata read back by thread t's check decodes for the payload read back
DecodedBack(t) ==
    _decode_metadata(ctx[t].metadata_actual_json, Len(ctx[t].data_read[1]), _dict_hmac)

\* C19: post-write consistency check. With the check enabled, whenever the payload
\* read back after the two writes differs from the encapsulated bytes written, in
\* content or in length, the save fails with InternalError; when it is equal and
\* the metadata decodes, the save succeeds.
C19_PostWriteCheck ==
    ReadBack(C1T) =>
        /\ ctx[C1T].data_read[1] # ctx[C1T].stored => ctx[C1T].exc = "InternalError"
        /\ (ctx[C1T].data_read[1] = ctx[C1T].stored /\ DecodedBack(C1T).exc = NoExc)
              => ctx[C1T].exc = NoExc

\* C19 amended: whenever the payload read back differs from the bytes written, the
\* save fails: with InternalError when the metadata read back decodes for the
\* length of the payload read back, and with the decoding error otherwise, which
\* is the length mismatch (ValueError) when the payload changed in length and the
\* metadata is the one written; when it is equal and the metadata decodes, the
\* save succeeds.
C19_PostWriteCheckAmended ==
    ReadBack(C1T) =>
        LET c == ctx[C1T]
            d == DecodedBack(C1T) IN
        /\ c.data_read[1] # c.stored =>
              /\ c.exc # NoExc
              /\ d.exc = NoExc => c.exc = "InternalError"
              /\ d.exc # NoExc => c.exc = d.exc
        /\ (Len(c.data_read[1]) # Len(c.stored)
            /\ c.metadata_actual_json = c.metadata_json) => c.exc = "ValueError"
        /\ (c.data_read[1] = c.stored /\ d.exc = NoExc) => c.exc = NoExc

\* a save whose payload came back with another length failed the length check
C19_Witness ==
    /\ ReadBack(C1T) /\ ctx[C1T].op = "save"
    /\ Len(ctx[C1T].data_read[1]) # Len(ctx[C1T].stored)
    /\ ctx[C1T].metadata_actual_json = ctx[C1T].metadata_json
    /\ ctx[C1T].exc = "ValueError"

\* the permits of the write semaphore that are held
PermitsHeld == simultaneousWrites + WRITE_QUEUE_LENGTH - _write_semaphore

\* C20: write permit conservation. In every reachable state the permits of the
\* write semaphore that are held are as many as the asynchronous saves submitted
\* (or being submitted, the permit taken) whose job has neither finished nor been
\* cancelled; after close() has returned the semaphore is back at its full
\* capacity simultaneousWrites + WRITE_QUEUE_LENGTH.
C20_PermitConservation ==
    /\ PermitsHeld = Cardinality(Admitted) + (IF pc[Main] = "save_submit" THEN 1 ELSE 0)
    /\ (Closed /\ pc[Main] = "idle" /\ ctx[Main].op = "closed")
          => _write_semaphore = simultaneousWrites + WRITE_QUEUE_LENGTH

\* the permits of the read semaphore that are held
ReadPermitsHeld == simultaneousReads + READ_QUEUE_LENGTH - _read_semaphore

WaitReadsBegin(t) ==
    /\ pc[t] = "idle"
    /\ ctx' = [ctx EXCEPT ![t] = [IdleCtx EXCEPT !.op = "wait_reads_finished",
                                                 !.fs = Range(_read_futures)]]
    /\ Goto(t, "wait_reads")
    /\ UNCHANGED pool_vars
    /\ PoolFrame

\* the call returns once every one of them is done
WaitReadsReturn(t) ==
    /\ pc[t] = "wait_reads"
    /\ \A j \in ctx[t].fs : futures[j].state \in DoneStates
    /\ Goto(t, "idle")
    /\ UNCHANGED <<ctx, pool_vars>>
    /\ PoolFrame

\* ---- asynchronous reads that nobody consumes: the main thread saves the block,
\* submits reads and waits for them; every worker keeps running, the backend
\* calls return, and a wait that can return does
NextWait ==
    \/ SyncSave(Main)
    \/ ReadAsync(Main, ReadBlocks, {FALSE})
    \/ WaitReadsBegin(Main) \/ WaitReadsReturn(Main)
    \/ \E w \in ReadWorkers : ReaderNext(w)

SpecWait ==
    /\ InitEngine /\ [][NextWait]_vars
    /\ WF_vars(WaitReadsReturn(Main))
    /\ \A w \in ReadWorkers : WF_vars(ReaderNext(w))

\* C22: wait_reads_finished terminates. After any number of read(sync=False)
\* submissions, with nobody taking items from read_get_completed, a call of
\* wait_reads_finished() eventually returns.
C22_WaitReadsTerminates ==
    (pc[Main] = "wait_reads") ~> (pc[Main] # "wait_reads")

\* ---- two clients save the same version at once, one call each: their probes
\* and writes interleave at the backend calls, which may fail; no transforms, no
\* HMAC
NextVersions ==
    \E t \in Clients :
        \/ ctx[t].op = "none" /\ CallSaveVersion(t, VersionUids, Texts)
        \/ SvProbe(t)
        \/ SvWriteData(t) \/ SvWriteMeta(t)
        \/ SvCleanupData(t) \/ SvCleanupMeta(t)
        \/ Return(t)

SpecVersions == Init /\ [][NextVersions]_vars

\* client t's first call, save_version(uid, text, overwrite=False), has ended
GuardedSaveDone(t) ==
    /\ pc[t] = "ret" /\ ctx[t].op = "save_version"
    /\ ~ctx[t].overwrite /\ ctx[t].prev.op = "none"

\* C23: concurrent version guard. When two threads call save_version(uid, x,
\* overwrite=False) and save_version(uid, y, overwrite=False) concurrently for a
\* uid not yet stored, at most one call succeeds under every interleaving of
\* their backend calls, and the payload and the .meta stored afterwards belong to
\* the same call: object_size in .meta is the length of the stored payload.
C23_ConcurrentVersionGuard ==
    (GuardedSaveDone(C1T) /\ GuardedSaveDone(C2T)
     /\ ctx[C1T].block.uid = ctx[C2T].block.uid) =>
        LET key == ctx[C1T].key IN
        /\ ~(ctx[C1T].exc = NoExc /\ ctx[C2T].exc = NoExc)
        /\ (objects[key] # NoneBytes /\ objects[MetaKey(key)] # NoneBytes)
              => json_loads(objects[MetaKey(key)][1])[_OBJECT_SIZE_KEY]
                     = Len(objects[key][1])

\* what StorageBase._read (202-228) returns for the key on the backend as it is,
\* when no backend call fails
UncachedRead(key, metadata_only) ==
    IF objects[key] = NoneBytes \/ objects[MetaKey(key)] = NoneBytes
    THEN [IdleCtx EXCEPT !.exc = "FileNotFoundError"]
    ELSE FinishRead([IdleCtx EXCEPT !.metadata_only = metadata_only,
                                    !.data_read = IF metadata_only THEN NoneBytes
                                                  ELSE objects[key],
                                    !.data_length = Len(objects[key][1])],
                    objects[MetaKey(key)][1])

\* client t's read has ended with the read cache configured and enabled, and none
\* of its backend calls failed
CachedReadDone(t) ==
    /\ pc[t] = "ret" /\ ctx[t].op = "read"
    /\ has_read_cache /\ _use_read_cache
    /\ ctx[t].exc \notin FaultExcs

\* C24: cache coherence with the backend. With the read cache configured and
\* enabled, after any sequence of save, read and rm on a block uid, read returns
\* the outcome (data and metadata, or the error) that the uncached read returns on
\* the current backend state.
C24_CacheCoherence ==
    CachedReadDone(C1T) =>
        LET u == UncachedRead(ctx[C1T].key, ctx[C1T].metadata_only) IN
        /\ ctx[C1T].exc = u.exc
        /\ ctx[C1T].value = u.value
        /\ ctx[C1T].metadata = u.metadata

====
